---- MODULE Spec2Model ----
(***************************************************************************)
(* Model of the document-tree-to-text transpiler of word2xml2md_final.py:  *)
(* text_of_run, convert_math_operator, omml_to_latex,                      *)
(* extract_paragraph_content, merge_superscripts_subscripts,               *)
(* paragraph_items_to_text, table_to_html, paragraph_to_md and             *)
(* convert_document, with the module globals PNG_COUNT and WMF_COUNT.      *)
(*                                                                         *)
(* A Python str is a sequence of one-character strings; a character        *)
(* outside ASCII is written by its code point ("U+03C0" is the Greek small *)
(* letter pi, "U+3000" the full-width space).  An element of the parsed    *)
(* XML tree is a record [ns, tag, attrs, text, kids]: the namespace        *)
(* prefix of NS, the local tag name, the attributes in document order, the *)
(* direct text and the children.                                           *)
(***************************************************************************)
EXTENDS Integers, Sequences, FiniteSets, TLC

VARIABLES
    PNG_COUNT,        \* module global, line 21
    WMF_COUNT,        \* module global, line 22
    processed_nodes,  \* the visited set left by the latest extract_paragraph_content call
    pc,               \* where the running call is
    input,            \* the argument of the call under study (run, math node, paragraph, table, document)
    calls,            \* how many times the function under study has been called on input
    returned,         \* the values returned so far, in call order
    content_items,    \* paragraph_to_md: content_items after line 648
    merged,           \* paragraph_to_md: content_items after line 649
    rows,             \* table_to_html: rows after the padding loop, line 590
    body,             \* convert_document: the children of the body element
    i,                \* convert_document: index of the body node being processed
    out_lines,        \* convert_document: out_lines
    started           \* convert_document: the counters when the running call began

vars == <<PNG_COUNT, WMF_COUNT, processed_nodes, pc, input, calls, returned,
          content_items, merged, rows, body, i, out_lines, started>>

(***************************************************************************)
(* Bounds of the model.                                                    *)
(***************************************************************************)
\* calls of the function under study on one input
MaxCalls == 2
\* children of a generated paragraph
MaxRuns == 3
\* text fragments / line breaks of a generated run
MaxFragments == 2
\* cells of a generated table row
MaxRowLen == 3
\* rows of a generated table
MaxRows == 3
\* body-level nodes of a generated document
MaxBody == 2
\* characters of a generated math text
MaxText == 3
\* items of a generated item sequence
MaxItems == 3
\* frames of nested Python calls the interpreter allows while one body-level
\* node is handled (sys.getrecursionlimit(), scaled down to the generated trees)
RecursionLimit == 12

(***************************************************************************)
(* Let(v, F) is F(v) with v evaluated once, before F is applied: the way a *)
(* Python local holds the value of its right-hand side.                    *)
(***************************************************************************)
Let(v, F(_)) == CHOOSE r \in {F(x) : x \in {v}} : TRUE

(***************************************************************************)
(* Strings.                                                                *)
(***************************************************************************)
\* str.isspace / the regular expression class \s, on the characters used
IsSpace(c) == c \in {" ", "\t", "\n", "\r", "U+3000"}

IsDigit(c) == c \in {"0", "1", "2", "3", "4", "5", "6", "7", "8", "9"}

RECURSIVE LStrip(_)
LStrip(s) == IF s # <<>> /\ IsSpace(Head(s)) THEN LStrip(Tail(s)) ELSE s

RECURSIVE RStrip(_)
RStrip(s) ==
    IF s # <<>> /\ IsSpace(s[Len(s)]) THEN RStrip(SubSeq(s, 1, Len(s) - 1)) ELSE s

\* str.strip()
Strip(s) == RStrip(LStrip(s))

\* the first occurrence of sym only is replaced
ReplaceFirst(s, sym, rep) ==
    IF \E k \in 1..Len(s) : s[k] = sym
    THEN LET k == CHOOSE k \in 1..Len(s) : s[k] = sym /\ \A j \in 1..(k - 1) : s[j] # sym
         IN  SubSeq(s, 1, k - 1) \o rep \o SubSeq(s, k + 1, Len(s))
    ELSE s

\* str.replace(sym, rep) for a one-character sym
RECURSIVE Replace(_, _, _)
Replace(s, sym, rep) ==
    IF s = <<>> THEN <<>>
    ELSE (IF Head(s) = sym THEN rep ELSE <<Head(s)>>) \o Replace(Tail(s), sym, rep)

\* sep.join(parts)
RECURSIVE Join(_, _)
Join(sep, parts) ==
    IF parts = <<>> THEN <<>>
    ELSE IF Len(parts) = 1 THEN parts[1]
    ELSE parts[1] \o sep \o Join(sep, Tail(parts))

\* ''.join(parts)
RECURSIVE Concat(_)
Concat(parts) == IF parts = <<>> THEN <<>> ELSE Head(parts) \o Concat(Tail(parts))

\* sub in s
Contains(s, sub) ==
    \E k \in 1..(Len(s) - Len(sub) + 1) : SubSeq(s, k, k + Len(sub) - 1) = sub

\* s.startswith(prefix)
StartsWith(s, prefix) ==
    Len(s) >= Len(prefix) /\ SubSeq(s, 1, Len(prefix)) = prefix

(***************************************************************************)
(* The element tree.                                                       *)
(***************************************************************************)
Node(ns, tag, attrs, text, kids) ==
    [ns |-> ns, tag |-> tag, attrs |-> attrs, text |-> text, kids |-> kids]

Attr(ns, local, value) == [ns |-> ns, local |-> local, value |-> value]

\* None, where an Element was looked for
NoNode == Node("", "#None", <<>>, <<>>, <<>>)

\* None, where an attribute value was looked for
NoValue == <<"#None">>

\* strip_ns(node.tag)
strip_ns(node) == node.tag

\* bool(element): an element without children is falsy
Truthy(node) == node # NoNode /\ Len(node.kids) > 0

\* Element.get('{ns}local') / Element.get('local') for ns = ""
RECURSIVE GetAttr(_, _, _)
GetAttr(attrs, ns, local) ==
    IF attrs = <<>> THEN NoValue
    ELSE IF Head(attrs).ns = ns /\ Head(attrs).local = local THEN Head(attrs).value
    ELSE GetAttr(Tail(attrs), ns, local)

\* the descendants of node in document order, each with its identity:
\* the identity of a node is the identity of the root of the walk followed
\* by the child positions leading to it
RECURSIVE Descendants(_, _)
RECURSIVE DescendantsOfKids(_, _, _)
Descendants(node, id) == DescendantsOfKids(node.kids, id, 1)
DescendantsOfKids(kids, id, k) ==
    IF k > Len(kids) THEN <<>>
    ELSE <<[node |-> kids[k], id |-> Append(id, k)]>>
         \o Descendants(kids[k], Append(id, k))
         \o DescendantsOfKids(kids, id, k + 1)

Children(node, id) == [k \in 1..Len(node.kids) |-> [node |-> node.kids[k], id |-> Append(id, k)]]

Is(ns, tag, e) == e.node.ns = ns /\ e.node.tag = tag

\* node.findall('.//ns:tag', NS), with identities
FindAllDeep(node, id, ns, tag) ==
    SelectSeq(Descendants(node, id), LAMBDA e : Is(ns, tag, e))

\* node.findall('./ns:tag', NS), with identities
FindAllChild(node, id, ns, tag) ==
    SelectSeq(Children(node, id), LAMBDA e : Is(ns, tag, e))

First(found) == IF found = <<>> THEN NoNode ELSE found[1].node

\* node.find('.//ns:tag', NS)
FindDeep(node, ns, tag) == First(FindAllDeep(node, <<>>, ns, tag))

\* node.find('ns:tag', NS)
FindChild(node, ns, tag) == First(FindAllChild(node, <<>>, ns, tag))

\* the first child whose strip_ns(tag) is tag, lines 329-332 and 334-337
FindChildLocal(node, tag) ==
    First(SelectSeq(Children(node, <<>>), LAMBDA e : strip_ns(e.node) = tag))

(***************************************************************************)
(* has_underline_format, text_of_run, get_run_vertical_align               *)
(***************************************************************************)
has_underline_format(r) ==
    LET rPr == FindChild(r, "w", "rPr")
    IN  IF rPr # NoNode THEN FindChild(rPr, "w", "u") # NoNode ELSE FALSE

\* text.replace(' ', '_'): only the ASCII space is filled
UnderlineFillAsciiOnly(text) == Replace(text, " ", <<"_">>)

\* re.sub(r'[\s<U+3000>]', '_', text), line 231
RECURSIVE UnderlineFill(_)
UnderlineFill(text) ==
    IF text = <<>> THEN <<>>
    ELSE <<IF IsSpace(Head(text)) \/ Head(text) = "U+3000" THEN "_" ELSE Head(text)>>
         \o UnderlineFill(Tail(text))

\* the parts of the first loop, lines 227-234
RECURSIVE TextParts(_, _)
TextParts(ts, is_underlined) ==
    IF ts = <<>> THEN <<>>
    ELSE LET t == Head(ts).node
         IN  (IF t.text # <<>>
              THEN (IF is_underlined THEN UnderlineFill(t.text) ELSE t.text)
              ELSE <<>>)
             \o TextParts(Tail(ts), is_underlined)

\* the parts of the second loop, lines 235-236
BreakParts(brs) == [k \in 1..Len(brs) |-> "\n"]

text_of_run(r) ==
    LET is_underlined == has_underline_format(r)
    IN  TextParts(FindAllDeep(r, <<>>, "w", "t"), is_underlined)
        \o BreakParts(FindAllDeep(r, <<>>, "w", "br"))

get_run_vertical_align(r) ==
    LET rPr == FindChild(r, "w", "rPr")
        vertAlign == IF rPr # NoNode THEN FindChild(rPr, "w", "vertAlign") ELSE NoNode
    IN  IF vertAlign # NoNode THEN GetAttr(vertAlign.attrs, "w", "val") ELSE NoValue

(***************************************************************************)
(* node_text_content, convert_math_operator                                *)
(***************************************************************************)
RECURSIVE Texts(_)
Texts(ts) == IF ts = <<>> THEN <<>> ELSE Head(ts).node.text \o Texts(Tail(ts))

node_text_content(node) ==
    IF node = NoNode THEN <<>>
    ELSE LET texts == Texts(FindAllDeep(node, <<>>, "m", "t"))
         IN  IF texts = <<>> THEN Texts(FindAllDeep(node, <<>>, "w", "t")) ELSE texts

\* operator_map in insertion order, lines 265-291
operator_map == <<
    <<"U+00D7", <<" ", "\\", "t", "i", "m", "e", "s", " ">>>>,
    <<"U+22C5", <<" ", "\\", "c", "d", "o", "t", " ">>>>,
    <<"U+00F7", <<" ", "\\", "d", "i", "v", " ">>>>,
    <<"U+00B1", <<" ", "\\", "p", "m", " ">>>>,
    <<"U+2213", <<" ", "\\", "m", "p", " ">>>>,
    <<"U+2264", <<" ", "\\", "l", "e", "q", " ">>>>,
    <<"U+2265", <<" ", "\\", "g", "e", "q", " ">>>>,
    <<"U+2260", <<" ", "\\", "n", "e", "q", " ">>>>,
    <<"U+2248", <<" ", "\\", "a", "p", "p", "r", "o", "x", " ">>>>,
    <<"U+221E", <<" ", "\\", "i", "n", "f", "t", "y", " ">>>>,
    <<"U+2211", <<" ", "\\", "s", "u", "m", " ">>>>,
    <<"U+220F", <<" ", "\\", "p", "r", "o", "d", " ">>>>,
    <<"U+222B", <<" ", "\\", "i", "n", "t", " ">>>>,
    <<"U+221A", <<" ", "\\", "s", "q", "r", "t", " ">>>>,
    <<"U+03B1", <<" ", "\\", "a", "l", "p", "h", "a", " ">>>>,
    <<"U+03B2", <<" ", "\\", "b", "e", "t", "a", " ">>>>,
    <<"U+03B3", <<" ", "\\", "g", "a", "m", "m", "a", " ">>>>,
    <<"U+03B4", <<" ", "\\", "d", "e", "l", "t", "a", " ">>>>,
    <<"U+03C0", <<" ", "\\", "p", "i", " ">>>>,
    <<"U+03B8", <<" ", "\\", "t", "h", "e", "t", "a", " ">>>>,
    <<"U+03BB", <<" ", "\\", "l", "a", "m", "b", "d", "a", " ">>>>,
    <<"U+03BC", <<" ", "\\", "m", "u", " ">>>>,
    <<"U+03C3", <<" ", "\\", "s", "i", "g", "m", "a", " ">>>>,
    <<"U+03C6", <<" ", "\\", "p", "h", "i", " ">>>>,
    <<"U+03C9", <<" ", "\\", "o", "m", "e", "g", "a", " ">>>> >>

\* the loop of lines 292-293, from entry k on
RECURSIVE ReplaceSymbols(_, _)
ReplaceSymbols(text, k) ==
    IF k > Len(operator_map) THEN text
    ELSE Let(Replace(text, operator_map[k][1], operator_map[k][2]),
             LAMBDA replaced : ReplaceSymbols(replaced, k + 1))

\* re.sub(r'<U+00F7>(\d+)', r' \\div \1', text), line 294
RECURSIVE DivDigits(_)
DivDigits(text) ==
    IF text = <<>> THEN <<>>
    ELSE IF Head(text) = "U+00F7" /\ Len(text) > 1 /\ IsDigit(text[2])
         THEN <<" ", "\\", "d", "i", "v", " ">> \o DivDigits(Tail(text))
         ELSE <<Head(text)>> \o DivDigits(Tail(text))

convert_math_operator(text) ==
    Let(ReplaceSymbols(text, 1), LAMBDA replaced : DivDigits(replaced))

(***************************************************************************)
(* omml_to_latex                                                           *)
(***************************************************************************)
\* str.lower() on the characters used
Lower(c) ==
    CASE c = "B" -> "b" [] c = "A" -> "a" [] c = "R" -> "r" [] c = "H" -> "h"
      [] c = "T" -> "t" [] c = "E" -> "e" [] c = "D" -> "d" [] c = "I" -> "i"
      [] c = "N" -> "n" [] c = "G" -> "g" [] OTHER -> c

LowerStr(s) == [k \in 1..Len(s) |-> Lower(s[k])]

\* map_op.get(op, op), lines 378-379
map_op(op) ==
    CASE op = <<"U+2211">> -> <<"\\", "s", "u", "m">>
      [] op = <<"U+222B">> -> <<"\\", "i", "n", "t">>
      [] op = <<"U+03A0">> -> <<"\\", "p", "r", "o", "d">>
      [] OTHER -> op

\* A or B on two find() results, line 374
OrElse(a, b) == IF Truthy(a) THEN a ELSE b

\* the return of line 340 with the operands exchanged
FracLatexSwapped(num_text, den_text) == <<"\\", "f", "r", "a", "c", "{">> \o den_text \o <<"}", "{">> \o num_text \o <<"}">>

\* line 340
FracLatex(num_text, den_text) == <<"\\", "f", "r", "a", "c", "{">> \o num_text \o <<"}", "{">> \o den_text \o <<"}">>

\* lines 326-332: the numerator group of a fraction
FracNum(node) ==
    LET num_node == FindChild(node, "m", "num")
    IN  IF num_node = NoNode THEN FindChildLocal(node, "num") ELSE num_node

\* lines 327, 333-337: the denominator group of a fraction
FracDen(node) ==
    LET den_node == FindChild(node, "m", "den")
    IN  IF den_node = NoNode THEN FindChildLocal(node, "den") ELSE den_node

RECURSIVE omml_to_latex(_)
RECURSIVE LatexOfAll(_)

\* ''.join(omml_to_latex(c) for c in nodes)
LatexOfAll(nodes) ==
    IF nodes = <<>> THEN <<>>
    ELSE omml_to_latex(Head(nodes)) \o LatexOfAll(Tail(nodes))

\* a missing group leaves a question mark in its slot
LatexOfGroupPlaceholder(x) == IF x # NoNode THEN LatexOfAll(x.kids) ELSE <<"?">>

\* ''.join(omml_to_latex(c) for c in x) if x is not None else ''
LatexOfGroup(x) == IF x # NoNode THEN LatexOfAll(x.kids) ELSE <<>>

Nodes(found) == [k \in 1..Len(found) |-> found[k].node]

omml_to_latex(node) ==
    IF node = NoNode THEN <<>>
    ELSE LET tag == strip_ns(node) IN
    CASE tag \in {"oMath", "oMathPara"} -> LatexOfAll(node.kids)
      [] tag = "r" ->
            LET txt == node_text_content(node)
                val == get_run_vertical_align(node)
            IN  IF val = <<"s", "u", "p", "e", "r", "s", "c", "r", "i", "p", "t">> THEN <<"^", "{">> \o convert_math_operator(txt) \o <<"}">>
                ELSE IF val = <<"s", "u", "b", "s", "c", "r", "i", "p", "t">> THEN <<"_", "{">> \o convert_math_operator(txt) \o <<"}">>
                ELSE IF txt # <<>> THEN convert_math_operator(txt)
                ELSE LatexOfAll(node.kids)
      [] tag = "t" -> convert_math_operator(node.text)
      [] tag \in {"f", "frac"} ->
            FracLatex(LatexOfGroup(FracNum(node)), LatexOfGroup(FracDen(node)))
      [] tag \in {"num", "den"} -> LatexOfAll(node.kids)
      [] tag = "sSup" ->
            LatexOfGroup(FindChild(node, "m", "base"))
            \o <<"^", "{">> \o LatexOfGroup(FindChild(node, "m", "sup")) \o <<"}">>
      [] tag = "sSub" ->
            LatexOfGroup(FindChild(node, "m", "base"))
            \o <<"_", "{">> \o LatexOfGroup(FindChild(node, "m", "sub")) \o <<"}">>
      [] tag = "sSupSub" ->
            LatexOfGroup(FindChild(node, "m", "base"))
            \o <<"_", "{">> \o LatexOfGroup(FindChild(node, "m", "sub"))
            \o <<"}", "^", "{">> \o LatexOfGroup(FindChild(node, "m", "sup")) \o <<"}">>
      [] tag = "rad" ->
            LET deg_l == LatexOfGroup(FindChild(node, "m", "deg"))
                rad_l == LatexOfGroup(FindChild(node, "m", "radicand"))
            IN  IF deg_l # <<>> THEN <<"\\", "s", "q", "r", "t", "[">> \o deg_l \o <<"]", "{">> \o rad_l \o <<"}">>
                ELSE <<"\\", "s", "q", "r", "t", "{">> \o rad_l \o <<"}">>
      [] tag = "nary" ->
            LET op == OrElse(FindDeep(node, "m", "chr"), FindDeep(node, "m", "op"))
                op_l == IF op # NoNode THEN node_text_content(op) ELSE <<>>
                lower == LatexOfAll(Nodes(FindAllDeep(node, <<>>, "m", "low")))
                upper == LatexOfAll(Nodes(FindAllDeep(node, <<>>, "m", "up")))
                op_tex == map_op(Strip(op_l))
            IN  IF lower # <<>> /\ upper # <<>>
                THEN op_tex \o <<"_", "{">> \o lower \o <<"}", "^", "{">> \o upper \o <<"}">>
                ELSE IF lower # <<>> THEN op_tex \o <<"_", "{">> \o lower \o <<"}">>
                ELSE op_tex
      [] tag = "acc" ->
            LET base == FindChild(node, "m", "e")
                chr_node == FindDeep(node, "m", "chr")
                chr_text == IF chr_node # NoNode THEN node_text_content(chr_node) ELSE <<>>
                inner == LatexOfGroup(base)
            IN  IF Contains(LowerStr(chr_text), <<"b", "a", "r">>) \/ Contains(chr_text, <<"U+00AF">>)
                THEN <<"\\", "o", "v", "e", "r", "l", "i", "n", "e", "{">> \o inner \o <<"}">>
                ELSE IF Contains(LowerStr(chr_text), <<"h", "a", "t">>) THEN <<"\\", "h", "a", "t", "{">> \o inner \o <<"}">>
                ELSE <<"\\", "o", "v", "e", "r", "s", "e", "t", "{">> \o chr_text \o <<"}", "{">> \o inner \o <<"}">>
      [] OTHER -> LatexOfAll(node.kids)

(***************************************************************************)
(* extract_paragraph_content                                               *)
(*                                                                         *)
(* A content item (ttype, cont) is a record [type, cont, name, src]: for   *)
(* 'image' and 'wmf' items cont is the relationship id and name the        *)
(* display name of the pair (id, name); name is empty otherwise.  src is   *)
(* not in the code: it lists the identities of the nodes the item was made *)
(* from, so that the order and the folding of the items can be stated.     *)
(***************************************************************************)
Item(type, cont, name, src) == [type |-> type, cont |-> cont, name |-> name, src |-> src]

\* processed_nodes shared between calls: a mutable default argument
SharedProcessedNodes(left_over) == left_over

\* lines 401-402: a call without processed_nodes starts with a new empty set
NewProcessedNodes(left_over) == {}

\* node.findall('.//{*}local'), with identities
FindAllDeepAnyNs(node, id, local) ==
    SelectSeq(Descendants(node, id), LAMBDA e : e.node.tag = local)

\* lines 420-423: the math items of a run
RECURSIVE MathItems(_)
MathItems(math_nodes) ==
    IF math_nodes = <<>> THEN <<>>
    ELSE Let(omml_to_latex(Head(math_nodes).node), LAMBDA transpiled :
         Let(Strip(transpiled), LAMBDA latex :
             (IF latex # <<>>
              THEN <<Item("math", latex, <<>>, <<Head(math_nodes).id>>)>>
              ELSE <<>>)
             \o MathItems(Tail(math_nodes))))

\* the nodes text_of_run takes the text of a run from
TextSources(node, id) ==
    SelectSeq(Descendants(node, id),
              LAMBDA e : \/ (Is("w", "t", e) /\ e.node.text # <<>>)
                         \/ Is("w", "br", e))

\* lines 426-434: the text item of a run
TextItems(node, id) ==
    LET text == text_of_run(node)
        va == get_run_vertical_align(node)
        src == <<TextSources(node, id)[1].id>>
    IN  IF text = <<>> THEN <<>>
        ELSE IF va = <<"s", "u", "p", "e", "r", "s", "c", "r", "i", "p", "t">> THEN <<Item("superscript", text, <<>>, src)>>
        ELSE IF va = <<"s", "u", "b", "s", "c", "r", "i", "p", "t">> THEN <<Item("subscript", text, <<>>, src)>>
        ELSE <<Item("text", text, <<>>, src)>>

\* dict.get(key, default)
GetOr(attrs, ns, local, default) ==
    IF GetAttr(attrs, ns, local) = NoValue THEN default ELSE GetAttr(attrs, ns, local)

\* lines 437-450: the raster image item of a run
DrawingItems(node, id) ==
    LET drawings == FindAllDeep(node, id, "w", "drawing")
        drawing == First(drawings)
        inline0 == IF drawing # NoNode THEN FindDeep(drawing, "wp", "inline") ELSE NoNode
        inline == IF drawing # NoNode /\ inline0 = NoNode
                  THEN FindDeep(drawing, "wp", "anchor") ELSE inline0
        docPr == IF inline # NoNode THEN FindDeep(inline, "wp", "docPr") ELSE NoNode
        img_name == IF docPr # NoNode THEN GetOr(docPr.attrs, "", "name", <<"I", "m", "a", "g", "e">>)
                    ELSE <<"I", "m", "a", "g", "e">>
        blip == IF inline # NoNode THEN FindDeep(inline, "a", "blip") ELSE NoNode
        embed == IF blip # NoNode THEN GetAttr(blip.attrs, "r", "embed") ELSE NoValue
    IN  IF embed # NoValue /\ embed # <<>>
        THEN <<Item("image", embed, img_name, <<drawings[1].id>>)>>
        ELSE <<>>

\* lines 455-460: the value of the first attribute that names a relationship
\* (a namespace-qualified attribute whose local name is id)
RECURSIVE RelId(_)
RelId(attrs) ==
    IF attrs = <<>> THEN NoValue
    ELSE IF Head(attrs).ns # "" /\ Head(attrs).local = "id" THEN Head(attrs).value
    ELSE RelId(Tail(attrs))

\* a or b on two dict.get() results
OrValue(a, b) == IF a # NoValue /\ a # <<>> THEN a ELSE b

\* lines 452-467: the vector image items of a run
RECURSIVE WmfItems(_)
WmfItems(wmfData) ==
    IF wmfData = <<>> THEN <<>>
    ELSE LET imagedata == Head(wmfData).node
             rel_id == RelId(imagedata.attrs)
             titled == OrValue(GetAttr(imagedata.attrs, "", "title"),
                               GetAttr(imagedata.attrs, "", "alt"))
             img_name == IF titled = NoValue \/ titled = <<>> THEN <<"I", "m", "a", "g", "e">> ELSE titled
         IN  (IF rel_id # NoValue /\ rel_id # <<>>
              THEN <<Item("wmf", rel_id, img_name, <<Head(wmfData).id>>)>>
              ELSE <<>>)
             \o WmfItems(Tail(wmfData))

\* lines 416-470: the items of a run
RunItems(node, id) ==
    LET math_nodes == FindAllDeep(node, id, "m", "oMath")
    IN  (IF math_nodes # <<>> THEN MathItems(math_nodes) ELSE TextItems(node, id))
        \o DrawingItems(node, id)
        \o WmfItems(FindAllDeepAnyNs(node, id, "imagedata"))

RECURSIVE ExtractFrom(_, _, _)
RECURSIVE ExtractChildren(_, _, _, _)

\* lines 475-476 taking the first child only
ExtractFirstChild(kids, id, k, seen) ==
    IF k > Len(kids) \/ k > 1 THEN [items |-> <<>>, seen |-> seen]
    ELSE ExtractFrom(kids[k], Append(id, k), seen)

\* extract_paragraph_content(node, processed_nodes) on the node of identity
\* id: the items and the visited set afterwards
ExtractFrom(node, id, seen) ==
    IF id \in seen THEN [items |-> <<>>, seen |-> seen]
    ELSE LET tag == strip_ns(node)
             seen1 == seen \cup {id}
         IN  CASE tag \in {"oMath", "oMathPara"} ->
                    [items |-> MathItems(<<[node |-> node, id |-> id]>>), seen |-> seen1]
               [] tag = "r" -> [items |-> RunItems(node, id), seen |-> seen1]
               [] tag = "tbl" -> [items |-> <<>>, seen |-> seen1]
               [] OTHER -> ExtractChildren(node.kids, id, 1, seen1)

\* lines 475-476, from child k on
ExtractChildren(kids, id, k, seen) ==
    IF k > Len(kids) THEN [items |-> <<>>, seen |-> seen]
    ELSE Let(ExtractFrom(kids[k], Append(id, k), seen), LAMBDA one :
         Let(ExtractChildren(kids, id, k + 1, one.seen), LAMBDA rest :
             [items |-> one.items \o rest.items, seen |-> rest.seen]))

\* extract_paragraph_content(node) as its callers call it, without processed_nodes;
\* left_over is the visited set of the call before
extract_paragraph_content(node, id, left_over) ==
    ExtractFrom(node, id, NewProcessedNodes(left_over))

(***************************************************************************)
(* merge_superscripts_subscripts                                           *)
(***************************************************************************)
\* lines 491-500: the inner loop from j on; what it leaves in j, sup, sub
RECURSIVE ScanScripts(_, _, _, _, _)
ScanScripts(items, j, sup, sub, src) ==
    IF j > Len(items) THEN [j |-> j, sup |-> sup, sub |-> sub, src |-> src]
    ELSE IF items[j].type = "superscript"
         THEN ScanScripts(items, j + 1, sup \o items[j].cont, sub, src \o items[j].src)
    ELSE IF items[j].type = "subscript"
         THEN ScanScripts(items, j + 1, sup, sub \o items[j].cont, src \o items[j].src)
    ELSE [j |-> j, sup |-> sup, sub |-> sub, src |-> src]

\* lines 502-508 with the two scripts exchanged
FoldExprSwapped(base, sub, sup) ==
    IF sub # <<>> /\ sup # <<>> THEN base \o <<"_", "{">> \o sup \o <<"}", "^", "{">> \o sub \o <<"}">>
    ELSE IF sub # <<>> THEN base \o <<"^", "{">> \o sub \o <<"}">>
    ELSE base \o <<"_", "{">> \o sup \o <<"}">>

\* lines 502-508
FoldExpr(base, sub, sup) ==
    IF sub # <<>> /\ sup # <<>> THEN base \o <<"_", "{">> \o sub \o <<"}", "^", "{">> \o sup \o <<"}">>
    ELSE IF sub # <<>> THEN base \o <<"_", "{">> \o sub \o <<"}">>
    ELSE IF sup # <<>> THEN base \o <<"^", "{">> \o sup \o <<"}">>
    ELSE base

\* the index left where it is after a fold
AfterFoldStay(i0, j) == i0

\* i += 1 after a fold: the folded scripts are scanned again
AfterFoldStepOne(i0, j) == i0 + 1

\* line 510: i = j
AfterFold(i0, j) == j

\* lines 514-522 with a lone script passed on without its wrapping
UnfoldedBare(item) ==
    IF item.type \in {"math", "superscript", "subscript"}
    THEN Item("math", item.cont, <<>>, item.src)
    ELSE item

\* lines 514-522 with a lone script passed on as it is
UnfoldedKept(item) ==
    IF item.type = "math" THEN Item("math", item.cont, <<>>, item.src) ELSE item

\* lines 514-522: an item that is not a text
Unfolded(item) ==
    IF item.type = "math" THEN Item("math", item.cont, <<>>, item.src)
    ELSE IF item.type = "superscript"
         THEN Item("math", <<"^", "{">> \o item.cont \o <<"}">>, <<>>, item.src)
    ELSE IF item.type = "subscript"
         THEN Item("math", <<"_", "{">> \o item.cont \o <<"}">>, <<>>, item.src)
    ELSE item

\* the loop of lines 484-523 from index i0 on (1-based)
RECURSIVE MergeFrom(_, _)
MergeFrom(items, i0) ==
    IF i0 > Len(items) THEN <<>>
    ELSE IF items[i0].type = "text"
         THEN Let(ScanScripts(items, i0 + 1, <<>>, <<>>, items[i0].src), LAMBDA scan :
                  IF scan.sup # <<>> \/ scan.sub # <<>>
                  THEN <<Item("math", FoldExpr(items[i0].cont, scan.sub, scan.sup),
                               <<>>, scan.src)>>
                       \o Let(AfterFold(i0, scan.j), LAMBDA j : MergeFrom(items, j))
                  ELSE <<items[i0]>> \o Let(i0 + 1, LAMBDA j : MergeFrom(items, j)))
    ELSE <<Unfolded(items[i0])>> \o Let(i0 + 1, LAMBDA j : MergeFrom(items, j))

merge_superscripts_subscripts(content_items0) ==
    Let(content_items0, LAMBDA items : MergeFrom(items, 1))

(***************************************************************************)
(* paragraph_items_to_text, paragraph_to_md                                *)
(***************************************************************************)
Digit(d) == <<"0", "1", "2", "3", "4", "5", "6", "7", "8", "9">>[d + 1]

\* str(n) of a natural number, as the f-strings of lines 541, 548, 670, 677 format it
RECURSIVE Str(_)
Str(n) == IF n < 10 THEN <<Digit(n)>> ELSE Str(n \div 10) \o <<Digit(n % 10)>>

DigitValue(c) == CHOOSE d \in 0..9 : Digit(d) = c

\* int(digits) of a non-empty string of digits
RECURSIVE ToInt(_)
ToInt(digits) ==
    IF Len(digits) = 1 THEN DigitValue(digits[1])
    ELSE 10 * ToInt(SubSeq(digits, 1, Len(digits) - 1)) + DigitValue(digits[Len(digits)])

\* Path(INPUT_PATH).stem, lines 14, 539, 546
INPUT_PATH_stem == <<"2", "2", "2", "2">>

\* the reference carries the number after the current one
PngRefNext(img_name, doc_name, n) ==
    <<"!", "[">> \o img_name \o <<"]", "(", ".", ".", "/", "I", "m", "a", "g", "e", "s", "/">> \o doc_name \o <<"_", "i", "m", "a", "g", "e", "s", "/", "P", "N", "G", "/", "i", "m", "a", "g", "e">>
    \o Str(n + 1) \o <<".", "p", "n", "g", ")">>

\* lines 541 and 670
PngRef(img_name, doc_name, n) ==
    <<"!", "[">> \o img_name \o <<"]", "(", ".", ".", "/", "I", "m", "a", "g", "e", "s", "/">> \o doc_name \o <<"_", "i", "m", "a", "g", "e", "s", "/", "P", "N", "G", "/", "i", "m", "a", "g", "e">>
    \o Str(n) \o <<".", "p", "n", "g", ")">>

\* lines 548 and 677
WmfRef(img_name, doc_name, n) ==
    <<"!", "[">> \o img_name \o <<"]", "(", ".", ".", "/", "I", "m", "a", "g", "e", "s", "/">> \o doc_name \o <<"_", "i", "m", "a", "g", "e", "s", "/", "W", "M", "F", "/", "i", "m", "a", "g", "e">>
    \o Str(n) \o <<".", "w", "m", "f", ")">>

\* str((embed_id, img_name)) for names without quotes or escapes
StrPair(item) == <<"(", "'">> \o item.cont \o <<"'", ",", " ", "'">> \o item.name \o <<"'", ")">>

\* the loop of lines 531-551 from item k on: the parts and the counters afterwards
RECURSIVE ItemParts(_, _, _, _)
ItemParts(items, k, png, wmf) ==
    IF k > Len(items) THEN [parts |-> <<>>, png |-> png, wmf |-> wmf]
    ELSE LET item == items[k]
             part == CASE item.type = "text" -> item.cont
                       [] item.type = "math" -> <<"$">> \o item.cont \o <<"$">>
                       [] item.type = "image" -> PngRef(item.name, INPUT_PATH_stem, png)
                       [] item.type = "wmf" -> WmfRef(item.name, INPUT_PATH_stem, wmf)
                       [] OTHER -> item.cont
         IN  Let(<<k + 1, IF item.type = "image" THEN png + 1 ELSE png,
                          IF item.type = "wmf" THEN wmf + 1 ELSE wmf>>, LAMBDA n :
             Let(ItemParts(items, n[1], n[2], n[3]), LAMBDA rest :
                 [parts |-> part \o rest.parts, png |-> rest.png, wmf |-> rest.wmf]))

\* paragraph_items_to_text(content_items, join_with_br) with the globals
\* PNG_COUNT = png and WMF_COUNT = wmf: the text and the globals afterwards
paragraph_items_to_text(items, join_with_br, png, wmf) ==
    Let(ItemParts(items, 1, png, wmf), LAMBDA r :
    Let(Replace(r.parts, "\n", IF join_with_br THEN <<"<", "b", "r", "/", ">">> ELSE <<" ">>), LAMBDA text :
        [text |-> Strip(text), png |-> r.png, wmf |-> r.wmf]))

\* '#' * n
Hashes(n) == [k \in 1..n |-> "#"]

Min(a, b) == IF a < b THEN a ELSE b

\* lines 636-645: the heading prefix
HeadingPrefix(pPr) ==
    LET pStyle == IF pPr # NoNode THEN FindChild(pPr, "w", "pStyle") ELSE NoNode
        val == IF pStyle # NoNode THEN GetAttr(pStyle.attrs, "w", "val") ELSE NoValue
        digits == SelectSeq(val, IsDigit)
        level == IF digits = <<>> THEN 1 ELSE ToInt(digits)
    IN  IF val # NoValue /\ val # <<>> /\ StartsWith(LowerStr(val), <<"h", "e", "a", "d", "i", "n", "g">>)
        THEN Hashes(Min(level, 6)) \o <<" ">>
        ELSE <<>>

\* the display block of line 662 without its line breaks
DisplayMathOneLine(content) == <<"$", "$">> \o content \o <<"$", "$">>

\* line 662
DisplayMath(content) == <<"\n", "\n", "$", "$", "\n">> \o content \o <<"\n", "$", "$", "\n", "\n">>

\* line 664 with two spaces on each side of the content and none after
InlineMathPadded(content) == <<" ", "$", " ", " ">> \o content \o <<" ", " ", "$">>

\* line 664
InlineMath(content) == <<" ", "$", " ">> \o content \o <<" ", "$", " ">>

\* a path argument is None or a string; bool(path)
PathGiven(path) == path # NoValue /\ path # <<>>

\* the loop of lines 657-685 from item k on: the texts and the counters afterwards
RECURSIVE RenderItems(_, _, _, _, _, _)
RenderItems(items, k, only_math, doc_name, png, wmf) ==
    IF k > Len(items) THEN [texts |-> <<>>, png |-> png, wmf |-> wmf]
    ELSE LET item == items[k]
             numbered == doc_name # NoValue
             text == CASE item.type = "text" -> item.cont
                       [] item.type = "math" ->
                            IF only_math THEN DisplayMath(item.cont) ELSE InlineMath(item.cont)
                       [] item.type = "image" /\ numbered -> PngRef(item.name, doc_name, png)
                       [] item.type = "wmf" /\ numbered -> WmfRef(item.name, doc_name, wmf)
                       [] item.type = "superscript" -> <<"^", "{">> \o item.cont \o <<"}">>
                       [] item.type = "subscript" -> <<"_", "{">> \o item.cont \o <<"}">>
                       [] OTHER -> StrPair(item)
         IN  Let(<<k + 1, IF item.type = "image" /\ numbered THEN png + 1 ELSE png,
                          IF item.type = "wmf" /\ numbered THEN wmf + 1 ELSE wmf>>, LAMBDA n :
             Let(RenderItems(items, n[1], only_math, doc_name, n[2], n[3]), LAMBDA rest :
                 [texts |-> text \o rest.texts, png |-> rest.png, wmf |-> rest.wmf]))

\* paragraph_to_md(p, docx_path, output_dir) on the paragraph of identity id,
\* with the globals PNG_COUNT = png and WMF_COUNT = wmf and the visited set
\* left_over of the call before.  docx_path is the stem of the path, or
\* NoValue.  The line returned, the two item lists, the globals and the
\* visited set afterwards
paragraph_to_md(p, id, docx_path, output_dir, png, wmf, left_over) ==
    Let(FindChild(p, "w", "pPr"), LAMBDA pPr :
    Let(extract_paragraph_content(p, id, left_over), LAMBDA extracted :
    Let(merge_superscripts_subscripts(extracted.items), LAMBDA items :
    LET has_text == \E k \in 1..Len(items) :
                        items[k].type = "text" /\ Strip(items[k].cont) # <<>>
        has_math == \E k \in 1..Len(items) : items[k].type = "math"
        doc_name == IF PathGiven(docx_path) /\ PathGiven(output_dir)
                    THEN docx_path ELSE NoValue
    IN
    Let(has_math /\ ~has_text, LAMBDA only_math :
    Let(RenderItems(items, 1, only_math, doc_name, png, wmf), LAMBDA r :
    Let(HeadingPrefix(pPr) \o r.texts, LAMBDA line :
        [line |-> IF pPr # NoNode /\ FindChild(pPr, "w", "numPr") # NoNode
                  THEN <<"-", " ">> \o line ELSE line,
         content_items |-> extracted.items,
         merged |-> items,
         png |-> r.png, wmf |-> r.wmf, seen |-> extracted.seen]))))))

(***************************************************************************)
(* extract_cell_text, table_to_html                                        *)
(***************************************************************************)
\* the loop of lines 564-569 from paragraph k on
RECURSIVE CellTexts(_, _, _, _, _)
CellTexts(ps, k, png, wmf, left_over) ==
    IF k > Len(ps) THEN [texts |-> <<>>, png |-> png, wmf |-> wmf, seen |-> left_over]
    ELSE Let(extract_paragraph_content(ps[k].node, ps[k].id, left_over), LAMBDA extracted :
         Let(merge_superscripts_subscripts(extracted.items), LAMBDA items :
         Let(paragraph_items_to_text(items, TRUE, png, wmf), LAMBDA txt :
         Let(CellTexts(ps, k + 1, txt.png, txt.wmf, extracted.seen), LAMBDA rest :
             [texts |-> (IF txt.text # <<>> THEN <<txt.text>> ELSE <<>>) \o rest.texts,
              png |-> rest.png, wmf |-> rest.wmf, seen |-> rest.seen]))))

\* extract_cell_text taking every paragraph below the cell
extract_cell_text_deep(tc, id, png, wmf, left_over) ==
    Let(FindAllDeep(tc, id, "w", "p"), LAMBDA ps :
    Let(CellTexts(ps, 1, png, wmf, left_over), LAMBDA r :
    Let(Join(<<"<", "b", "r", "/", ">">>, r.texts), LAMBDA joined :
        [text |-> Strip(joined), png |-> r.png, wmf |-> r.wmf, seen |-> r.seen])))

\* extract_cell_text(tc) on the cell of identity id
extract_cell_text(tc, id, png, wmf, left_over) ==
    Let(FindAllChild(tc, id, "w", "p"), LAMBDA ps :
    Let(CellTexts(ps, 1, png, wmf, left_over), LAMBDA r :
    Let(Join(<<"<", "b", "r", "/", ">">>, r.texts), LAMBDA joined :
        [text |-> Strip(joined), png |-> r.png, wmf |-> r.wmf, seen |-> r.seen])))

\* the loop of lines 578-580 from cell k on
RECURSIVE RowCells(_, _, _, _, _)
RowCells(tcs, k, png, wmf, left_over) ==
    IF k > Len(tcs) THEN [cells |-> <<>>, png |-> png, wmf |-> wmf, seen |-> left_over]
    ELSE Let(extract_cell_text(tcs[k].node, tcs[k].id, png, wmf, left_over), LAMBDA cell :
         Let(RowCells(tcs, k + 1, cell.png, cell.wmf, cell.seen), LAMBDA rest :
             [cells |-> <<cell.text>> \o rest.cells,
              png |-> rest.png, wmf |-> rest.wmf, seen |-> rest.seen]))

\* the loop of lines 576-582 from row k on
RECURSIVE TableRows(_, _, _, _, _)
TableRows(trs, k, png, wmf, left_over) ==
    IF k > Len(trs) THEN [rows |-> <<>>, png |-> png, wmf |-> wmf, seen |-> left_over]
    ELSE Let(FindAllChild(trs[k].node, trs[k].id, "w", "tc"), LAMBDA tcs :
         Let(RowCells(tcs, 1, png, wmf, left_over), LAMBDA row :
         Let(TableRows(trs, k + 1, row.png, row.wmf, row.seen), LAMBDA rest :
             [rows |-> (IF row.cells # <<>> THEN <<row.cells>> ELSE <<>>) \o rest.rows,
              png |-> rest.png, wmf |-> rest.wmf, seen |-> rest.seen])))

\* max(len(r) for r in rows), line 587
RECURSIVE MaxLen(_)
MaxLen(rs) ==
    IF rs = <<>> THEN 0
    ELSE Let(MaxLen(Tail(rs)), LAMBDA m : IF Len(Head(rs)) > m THEN Len(Head(rs)) ELSE m)

\* the padding left out
PadRowNot(r, max_cols) == r

\* lines 589-590
PadRow(r, max_cols) ==
    IF Len(r) < max_cols THEN r \o [k \in 1..(max_cols - Len(r)) |-> <<>>] ELSE r

\* any() in the place of all()
HeaderIfAnyCell(first_row) ==
    \E k \in 1..Len(first_row) : Strip(first_row[k]) # <<>>

\* line 594
header_is_present(first_row) ==
    \A k \in 1..Len(first_row) : Strip(first_row[k]) # <<>>

\* the lines of one row: '    <tr>', a cell line per cell, '    </tr>'
RowLines(r, open, close) ==
    <<<<" ", " ", " ", " ", "<", "t", "r", ">">>>>
    \o [k \in 1..Len(r) |-> <<" ", " ", " ", " ", " ", " ">> \o open \o r[k] \o close]
    \o <<<<" ", " ", " ", " ", "<", "/", "t", "r", ">">>>>

RECURSIVE BodyLines(_)
BodyLines(rs) ==
    IF rs = <<>> THEN <<>>
    ELSE RowLines(Head(rs), <<"<", "t", "d", ">">>, <<"<", "/", "t", "d", ">">>) \o BodyLines(Tail(rs))

\* lines 596-616
HtmlLines(rs) ==
    Let(header_is_present(rs[1]), LAMBDA header :
        <<<<"<", "t", "a", "b", "l", "e", " ", "b", "o", "r", "d", "e", "r", "=", "\"", "1", "\"", ">">>>>
        \o (IF header
            THEN <<<<" ", " ", "<", "t", "h", "e", "a", "d", ">">>>> \o RowLines(rs[1], <<"<", "t", "h", ">">>, <<"<", "/", "t", "h", ">">>) \o <<<<" ", " ", "<", "/", "t", "h", "e", "a", "d", ">">>>>
            ELSE <<>>)
        \o <<<<" ", " ", "<", "t", "b", "o", "d", "y", ">">>>>
        \o BodyLines(IF header THEN Tail(rs) ELSE rs)
        \o <<<<" ", " ", "<", "/", "t", "b", "o", "d", "y", ">">>, <<"<", "/", "t", "a", "b", "l", "e", ">">>>>)

\* table_to_html(tbl) on the table of identity id: the block returned, the
\* padded rows, the globals and the visited set afterwards
table_to_html(tbl, id, png, wmf, left_over) ==
    Let(FindAllChild(tbl, id, "w", "tr"), LAMBDA tr_list :
    Let(TableRows(tr_list, 1, png, wmf, left_over), LAMBDA r :
    Let(MaxLen(r.rows), LAMBDA max_cols :
    Let([k \in 1..Len(r.rows) |-> PadRow(r.rows[k], max_cols)], LAMBDA padded :
        [html |-> IF r.rows = <<>> THEN <<>>
                  ELSE Let(HtmlLines(padded), LAMBDA html_lines :
                           <<"\n", "\n">> \o Join(<<"\n">>, html_lines) \o <<"\n", "\n">>),
         rows |-> padded,
         png |-> r.png, wmf |-> r.wmf, seen |-> r.seen]))))

(***************************************************************************)
(* convert_document                                                        *)
(***************************************************************************)
\* root.find('.//w:body', NS) or root, line 719, with its identity
BodyOf(root) ==
    LET found == FindAllDeep(root, <<>>, "w", "body")
    IN  IF found # <<>> /\ Truthy(found[1].node) THEN found[1]
        ELSE [node |-> root, id |-> <<>>]

\* lines 743-748 and 778-783: a table node
ConvertTable(e, docx_path, out, png, wmf, left_over) ==
    Let(table_to_html(e.node, e.id, png, wmf, left_over), LAMBDA t :
        [out |-> IF t.html # <<>> THEN Append(out, t.html) ELSE out,
         png |-> t.png, wmf |-> t.wmf, seen |-> t.seen])

\* lines 784-793: a paragraph inside another node
ConvertSubParagraph(e, docx_path, out, png, wmf, left_over) ==
    Let(paragraph_to_md(e.node, e.id, docx_path, <<".">>, png, wmf, left_over), LAMBDA md :
        [out |-> IF md.line # <<>> THEN Append(out, md.line) ELSE out,
         png |-> md.png, wmf |-> md.wmf, seen |-> md.seen])

\* lines 751-771: a body-level paragraph; the statistics of lines 763-768
\* extract the paragraph once more
ConvertParagraph(e, docx_path, out, png, wmf, left_over) ==
    Let(ConvertSubParagraph(e, docx_path, out, png, wmf, left_over), LAMBDA md :
        IF md.out # out
        THEN [md EXCEPT !.seen = extract_paragraph_content(e.node, e.id, md.seen).seen]
        ELSE md)

\* the loop of lines 776-793 leaving after the first child
ConvertSubsFirst(subs, k, docx_path, out, png, wmf, left_over) ==
    IF k > Len(subs) \/ k > 1 THEN [out |-> out, png |-> png, wmf |-> wmf, seen |-> left_over]
    ELSE IF strip_ns(subs[k].node) = "tbl"
    THEN ConvertTable(subs[k], docx_path, out, png, wmf, left_over)
    ELSE IF strip_ns(subs[k].node) = "p"
    THEN ConvertSubParagraph(subs[k], docx_path, out, png, wmf, left_over)
    ELSE [out |-> out, png |-> png, wmf |-> wmf, seen |-> left_over]

\* the loop of lines 776-793 from child k on
RECURSIVE ConvertSubs(_, _, _, _, _, _, _)
ConvertSubs(subs, k, docx_path, out, png, wmf, left_over) ==
    IF k > Len(subs) THEN [out |-> out, png |-> png, wmf |-> wmf, seen |-> left_over]
    ELSE LET stag == strip_ns(subs[k].node)
         IN  Let(IF stag = "tbl"
                 THEN ConvertTable(subs[k], docx_path, out, png, wmf, left_over)
                 ELSE IF stag = "p"
                 THEN ConvertSubParagraph(subs[k], docx_path, out, png, wmf, left_over)
                 ELSE [out |-> out, png |-> png, wmf |-> wmf, seen |-> left_over],
                 LAMBDA one :
                 ConvertSubs(subs, k + 1, docx_path, one.out, one.png, one.wmf, one.seen))

(***************************************************************************)
(* The try of line 742 and the handler of lines 795-798.  The functions    *)
(* called for a body-level node recurse over the tree, and a tree nested   *)
(* too deep makes the interpreter raise RecursionError in them; the        *)
(* handler serializes the node, which recurses over the tree as well.      *)
(***************************************************************************)
MaxOf(S) == IF S = {} THEN 0 ELSE CHOOSE x \in S : \A y \in S : y <= x

\* the frames of the deepest chain of calls of omml_to_latex(node): the
\* function, the generator expression and the join of lines 397, 329-338
\* for every level that is descended
RECURSIVE OmmlFrames(_)
OmmlFrames(node) ==
    IF node.kids = <<>> \/ (strip_ns(node) = "r" /\ node_text_content(node) # <<>>) THEN 1
    ELSE 3 + MaxOf({OmmlFrames(node.kids[k]) : k \in 1..Len(node.kids)})

\* the frames of the deepest chain of calls of extract_paragraph_content(node)
RECURSIVE ExtractFrames(_)
ExtractFrames(node) ==
    LET tag == strip_ns(node) IN
    IF tag \in {"oMath", "oMathPara"} THEN 1 + OmmlFrames(node)
    ELSE IF tag = "r"
    THEN LET math_nodes == FindAllDeep(node, <<>>, "m", "oMath")
         IN  1 + MaxOf({OmmlFrames(math_nodes[k].node) : k \in 1..Len(math_nodes)})
    ELSE IF tag = "tbl" THEN 1
    ELSE 1 + MaxOf({ExtractFrames(node.kids[k]) : k \in 1..Len(node.kids)})

\* the frames of the deepest chain of calls of ET.tostring(node), line 797
RECURSIVE SerializeFrames(_)
SerializeFrames(node) ==
    1 + MaxOf({SerializeFrames(node.kids[k]) : k \in 1..Len(node.kids)})

\* paragraph_to_md(p) raises: line 647 is not passed
ParagraphRaises(p) == strip_ns(p) = "p" /\ ExtractFrames(p) > RecursionLimit

\* extract_cell_text(tc) raises
CellRaises(tc) ==
    /\ tc.ns = "w" /\ tc.tag = "tc"
    /\ \E k \in 1..Len(tc.kids) : tc.kids[k].ns = "w" /\ ParagraphRaises(tc.kids[k])

RowRaises(tr) ==
    /\ tr.ns = "w" /\ tr.tag = "tr"
    /\ \E k \in 1..Len(tr.kids) : CellRaises(tr.kids[k])

\* table_to_html(tbl) raises
TableRaises(tbl) ==
    strip_ns(tbl) = "tbl" /\ \E k \in 1..Len(tbl.kids) : RowRaises(tbl.kids[k])

\* the paragraph or table sub of lines 776-793 raises
SubRaises(sub) == ParagraphRaises(sub) \/ TableRaises(sub)

\* the body of the try of lines 742-793 raises for the body-level node
Raises(node) ==
    IF strip_ns(node) \in {"p", "tbl"} THEN SubRaises(node)
    ELSE \E k \in 1..Len(node.kids) : SubRaises(node.kids[k])

\* the place of the first entry of seq that raises
FirstRaising(seq, Fails(_)) ==
    CHOOSE k \in 1..Len(seq) : Fails(seq[k]) /\ \A j \in 1..(k - 1) : ~Fails(seq[j])

\* the part of a table that raises which is handled before the exception:
\* the rows, cells and paragraphs before the paragraph that raises
HandledPart(tbl) ==
    LET r == FirstRaising(tbl.kids, RowRaises)
        c == FirstRaising(tbl.kids[r].kids, CellRaises)
        q == FirstRaising(tbl.kids[r].kids[c].kids, ParagraphRaises)
    IN  [tbl EXCEPT !.kids = SubSeq(@, 1, r) ,
                    !.kids[r].kids = SubSeq(@, 1, c),
                    !.kids[r].kids[c].kids = SubSeq(@, 1, q - 1)]

\* what a paragraph or table that raises leaves behind: the counters that
\* the cells before the exception have advanced
RaisedInSub(e, out, png, wmf, left_over) ==
    IF strip_ns(e.node) = "tbl"
    THEN Let(table_to_html(HandledPart(e.node), e.id, png, wmf, left_over), LAMBDA t :
             [out |-> out, png |-> t.png, wmf |-> t.wmf, seen |-> left_over])
    ELSE [out |-> out, png |-> png, wmf |-> wmf, seen |-> left_over]

\* what a body-level node that raises leaves behind: also the blocks of the
\* children that were converted before the exception
RaisedIn(e, docx_path, out, png, wmf, left_over) ==
    IF strip_ns(e.node) \in {"p", "tbl"} THEN RaisedInSub(e, out, png, wmf, left_over)
    ELSE Let(Children(e.node, e.id), LAMBDA subs :
         Let(FirstRaising(subs, LAMBDA sub : SubRaises(sub.node)), LAMBDA f :
         Let(ConvertSubs(SubSeq(subs, 1, f - 1), 1, docx_path, out, png, wmf, left_over),
             LAMBDA done : RaisedInSub(subs[f], done.out, done.png, done.wmf, left_over))))

(***************************************************************************)
(* The inputs: trees as xml.etree.ElementTree parses them.                 *)
(***************************************************************************)
SeqsUpTo(S, n) == UNION {[1..k -> S] : k \in 0..n}

W(tag, attrs, kids) == Node("w", tag, attrs, <<>>, kids)

T(text) == Node("w", "t", <<>>, text, <<>>)

BR == W("br", <<>>, <<>>)

Underline == W("rPr", <<>>, <<W("u", <<Attr("w", "val", <<"s", "i", "n", "g", "l", "e">>)>>, <<>>)>>)

VertAlign(val) == W("rPr", <<>>, <<W("vertAlign", <<Attr("w", "val", val)>>, <<>>)>>)

TextRun(text) == W("r", <<>>, <<T(text)>>)

ScriptRun(val, text) == W("r", <<>>, <<VertAlign(val), T(text)>>)

MT(text) == Node("m", "t", <<>>, text, <<>>)

MR(text) == Node("m", "r", <<>>, <<>>, <<MT(text)>>)

M(tag, kids) == Node("m", tag, <<>>, <<>>, kids)

OMath(kids) == M("oMath", kids)

Drawing(embed, name) ==
    W("drawing", <<>>,
      <<Node("wp", "inline", <<>>, <<>>,
             <<Node("wp", "docPr", <<Attr("", "id", <<"1">>), Attr("", "name", name)>>, <<>>, <<>>),
               Node("a", "graphic", <<>>, <<>>,
                    <<Node("pic", "blipFill", <<>>, <<>>,
                           <<Node("a", "blip", <<Attr("r", "embed", embed)>>, <<>>, <<>>)>>)>>)>>)>>)

Pict(rel_id) ==
    W("pict", <<>>,
      <<Node("v", "shape", <<Attr("", "id", <<"s", "1">>)>>, <<>>,
             <<Node("v", "imagedata", <<Attr("r", "id", rel_id), Attr("o", "title", <<"t">>)>>,
                    <<>>, <<>>)>>)>>)

\* an inline drawing whose blip has no r:embed attribute
DrawingNoEmbed ==
    W("drawing", <<>>,
      <<Node("wp", "inline", <<>>, <<>>,
             <<Node("wp", "docPr", <<Attr("", "id", <<"1">>), Attr("", "name", <<"P", "i", "c">>)>>, <<>>, <<>>),
               Node("a", "graphic", <<>>, <<>>,
                    <<Node("pic", "blipFill", <<>>, <<>>,
                           <<Node("a", "blip", <<>>, <<>>, <<>>)>>)>>)>>)>>)

\* an anchored drawing without a blip
AnchorNoBlip ==
    W("drawing", <<>>,
      <<Node("wp", "anchor", <<>>, <<>>,
             <<Node("wp", "docPr", <<Attr("", "id", <<"2">>), Attr("", "name", <<"P", "i", "c">>)>>, <<>>, <<>>)>>)>>)

\* a legacy picture whose imagedata has no relationship attribute
PictNoId ==
    W("pict", <<>>,
      <<Node("v", "shape", <<Attr("", "id", <<"s", "1">>)>>, <<>>,
             <<Node("v", "imagedata", <<Attr("", "id", <<"x">>), Attr("o", "title", <<"t">>)>>,
                    <<>>, <<>>)>>)>>)

Paragraph(pPr, kids) == W("p", <<>>, pPr \o kids)

PI == <<"U+03C0">>

\* the children a generated paragraph is made of
RunKinds ==
    { TextRun(<<"x">>),
      ScriptRun(<<"s", "u", "b", "s", "c", "r", "i", "p", "t">>, <<"i">>),
      ScriptRun(<<"s", "u", "p", "e", "r", "s", "c", "r", "i", "p", "t">>, <<"2">>),
      OMath(<<MR(PI)>>),
      W("r", <<>>, <<Drawing(<<"r", "I", "d", "5">>, <<"P", "i", "c">>), T(<<"y">>)>>),
      W("r", <<>>, <<Pict(<<"r", "I", "d", "7">>)>>),
      TextRun(<<"V", "a", "l", "u", "e", ":", " ">>) }

\* the paragraph properties a generated paragraph has
PPrKinds ==
    { <<>>,
      <<W("pPr", <<>>, <<W("pStyle", <<Attr("w", "val", <<"H", "e", "a", "d", "i", "n", "g", "2">>)>>, <<>>),
                          W("numPr", <<>>, <<>>)>>)>> }

Paragraphs == {Paragraph(pPr, kids) : pPr \in PPrKinds, kids \in SeqsUpTo(RunKinds, MaxRuns)}

\* children of a generated paragraph that are, or hold, nodes of a kind
\* neither omml_to_latex nor extract_paragraph_content knows
WrapKinds ==
    { TextRun(<<"x">>),
      ScriptRun(<<"s", "u", "b", "s", "c", "r", "i", "p", "t">>, <<"i">>),
      OMath(<<M("box", <<MR(<<"a">>), MR(PI)>>)>>),
      OMath(<<M("borderBox", <<M("box", <<MR(<<"a">>)>>), M("f", <<M("num", <<MR(<<"a">>)>>), M("den", <<MR(<<"b">>)>>)>>)>>)>>),
      W("hyperlink", <<>>, <<TextRun(<<"x">>), ScriptRun(<<"s", "u", "b", "s", "c", "r", "i", "p", "t">>, <<"i">>)>>),
      W("ins", <<>>, <<W("hyperlink", <<>>, <<OMath(<<MR(PI)>>), TextRun(<<"y">>)>>), TextRun(<<"x">>)>>),
      W("smartTag", <<>>, <<>>),
      Node("x", "custom", <<>>, <<"z">>, <<W("r", <<>>, <<Pict(<<"r", "I", "d", "7">>)>>)>>) }

\* children of a generated paragraph with math groups in runs, in a math
\* paragraph and in other math groups
NestKinds ==
    { TextRun(<<"x">>),
      OMath(<<MR(<<"a">>)>>),
      OMath(<<MR(<<"a">>), OMath(<<MR(<<"b">>)>>)>>),
      W("r", <<>>, <<OMath(<<MR(<<"a">>)>>), T(<<"x">>)>>),
      W("r", <<>>, <<OMath(<<MR(<<"a">>), OMath(<<MR(<<"b">>)>>)>>)>>),
      M("oMathPara", <<OMath(<<MR(<<"a">>)>>), OMath(<<MR(<<"b">>)>>)>>),
      W("r", <<>>, <<M("oMathPara", <<OMath(<<MR(<<"a">>)>>)>>)>>) }

NestedParagraphs == {Paragraph(<<>>, kids) : kids \in SeqsUpTo(NestKinds, MaxRuns)}

\* children of a generated paragraph for the run of lines 647-648 call by
\* call: runs, scripts, math, and nodes that hold these or a table
StepKinds ==
    { TextRun(<<"x">>),
      ScriptRun(<<"s", "u", "p", "e", "r", "s", "c", "r", "i", "p", "t">>, <<"2">>),
      OMath(<<MR(<<"a">>)>>),
      W("hyperlink", <<>>, <<TextRun(<<"y">>), ScriptRun(<<"s", "u", "b", "s", "c", "r", "i", "p", "t">>, <<"i">>)>>),
      W("ins", <<>>, <<W("hyperlink", <<>>, <<OMath(<<MR(PI)>>)>>),
                       W("tbl", <<>>, <<W("tr", <<>>, <<W("tc", <<>>, <<Paragraph(<<>>, <<TextRun(<<"z">>)>>)>>)>>)>>)>>) }

StepParagraphs == {Paragraph(<<>>, kids) : kids \in SeqsUpTo(StepKinds, MaxRuns)}

\* the style identifiers of the generated styled paragraphs
StyleVals ==
    {name \o level :
        name \in {<<"H", "e", "a", "d", "i", "n", "g">>, <<"h", "e", "a", "d", "i", "n", "g">>, <<"H", "E", "A", "D", "I", "N", "G">>, <<"T", "i", "t", "l", "e">>},
        level \in {<<>>, <<"0">>, <<"1">>, <<"2">>, <<"6">>, <<"7">>, <<"1", "0">>, <<"0", "0">>}}

\* paragraphs with a style identifier and text
StyledParagraphs ==
    {Paragraph(<<W("pPr", <<>>, <<W("pStyle", <<Attr("w", "val", val)>>, <<>>)>>)>>, kids) :
        val \in StyleVals,
        kids \in {<<TextRun(<<"x">>)>>, <<TextRun(<<"a", " ", "b">>)>>, <<TextRun(<<"x">>), TextRun(<<"x">>)>>}}

\* the children of a generated run that holds image references
ImageKinds ==
    { T(<<"x">>), Drawing(<<"r", "I", "d", "5">>, <<"P", "i", "c">>), Pict(<<"r", "I", "d", "7">>),
      DrawingNoEmbed, AnchorNoBlip, PictNoId }

\* paragraphs of one run with image references, some without identifier
ImageParagraphs ==
    {Paragraph(<<>>, <<W("r", <<>>, kids)>>) : kids \in SeqsUpTo(ImageKinds, MaxRuns)}

WrappedParagraphs == {Paragraph(<<>>, kids) : kids \in SeqsUpTo(WrapKinds, MaxRuns)}

\* the children a generated run is made of
FragmentKinds ==
    { T(<<" ">>), T(<<" ", " ">>), T(<<"a", " ", "b">>), T(<<"a", "U+3000", "\t", "b">>), T(<<"\n">>), T(<<>>), BR }

Runs ==
    {W("r", <<>>, rPr \o kids) :
        rPr \in {<<>>, <<Underline>>}, kids \in SeqsUpTo(FragmentKinds, MaxFragments)}

\* the operands of a generated fraction
Operands ==
    { <<MR(<<"a">>)>>, <<MR(<<"b">>)>>, <<MR(PI)>>, <<MR(<<"a">>), MR(<<"b">>)>>,
      <<M("f", <<M("num", <<MR(<<"a">>)>>), M("den", <<MR(<<"b">>)>>)>>)>> }

\* a numerator or denominator group: in the math namespace, in another
\* namespace, in both (the other one first), or missing
Groups(tag, kids, other) ==
    { <<M(tag, kids)>>,
      <<Node("x", tag, <<>>, <<>>, kids)>>,
      <<Node("x", tag, <<>>, <<>>, other), M(tag, kids)>>,
      <<>> }

Fractions ==
    UNION { UNION { {M("f", n \o d), M("f", d \o n)} :
                        n \in Groups("num", a, b), d \in Groups("den", b, a) } :
                a \in Operands, b \in Operands }

OtherMath ==
    { M("rad", <<M("deg", <<MR(<<"3">>)>>), M("radicand", <<MR(<<"a">>)>>)>>),
      M("rad", <<M("radicand", <<MR(<<"a">>)>>)>>),
      M("sSup", <<M("base", <<MR(<<"a">>)>>), M("sup", <<MR(<<"2">>)>>)>>),
      M("sSub", <<M("base", <<MR(<<"a">>)>>), M("sub", <<MR(<<"i">>)>>)>>),
      M("sSupSub", <<M("base", <<MR(<<"a">>)>>), M("sub", <<MR(<<"i">>)>>), M("sup", <<MR(<<"2">>)>>)>>),
      M("nary", <<M("naryPr", <<M("chr", <<MT(<<"U+2211">>)>>)>>),
                  M("low", <<MR(<<"i">>)>>), M("up", <<MR(<<"n">>)>>), M("e", <<MR(<<"a">>)>>)>>),
      M("acc", <<M("accPr", <<M("chr", <<MT(<<"h", "a", "t">>)>>)>>), M("e", <<MR(<<"a">>)>>)>>),
      M("box", <<MR(<<"a">>), MR(<<"U+00F7", "2">>)>>) }

MathNodes == Fractions \cup OtherMath

\* a child group of a math node: missing, holding a, or holding pi
Slot(tag) == { <<>>, <<M(tag, <<MR(<<"a">>)>>)>>, <<M(tag, <<MR(PI)>>)>> }

\* the operator character of an n-ary node: missing, a sum sign, or x
ChrSlot ==
    { <<>>,
      <<M("naryPr", <<M("chr", <<MT(<<"U+2211">>)>>)>>)>>,
      <<M("naryPr", <<M("chr", <<MT(<<"x">>)>>)>>)>> }

\* math nodes any of whose child groups may be missing
PartialMath ==
    {M("f", n \o d) : n \in Slot("num"), d \in Slot("den")}
    \cup {M("sSup", b \o p) : b \in Slot("base"), p \in Slot("sup")}
    \cup {M("sSub", b \o q) : b \in Slot("base"), q \in Slot("sub")}
    \cup {M("sSupSub", b \o q \o p) : b \in Slot("base"), q \in Slot("sub"), p \in Slot("sup")}
    \cup {M("rad", d \o r) : d \in Slot("deg"), r \in Slot("radicand")}
    \cup {M("nary", c \o l \o u \o <<M("e", <<MR(<<"a">>)>>)>>) :
              c \in ChrSlot, l \in Slot("low"), u \in Slot("up")}

\* the operator character of an n-ary node: missing; in a text node under
\* the chr node (sum, integral between spaces, capital pi, x); in the m:val
\* attribute of the chr node; as the chr node's own text; under an op node
\* beside a chr node without content
NaryOperators ==
    { <<>>,
      <<M("naryPr", <<M("chr", <<MT(<<"U+2211">>)>>)>>)>>,
      <<M("naryPr", <<M("chr", <<MT(<<" ", "U+222B", " ">>)>>)>>)>>,
      <<M("naryPr", <<M("chr", <<MT(<<"U+03A0">>)>>)>>)>>,
      <<M("naryPr", <<M("chr", <<MT(<<"x">>)>>)>>)>>,
      <<M("naryPr", <<Node("m", "chr", <<Attr("m", "val", <<"U+2211">>)>>, <<>>, <<>>)>>)>>,
      <<M("naryPr", <<Node("m", "chr", <<>>, <<"U+222B">>, <<>>)>>)>>,
      <<M("naryPr", <<M("chr", <<>>), M("op", <<MT(<<"U+222B">>)>>)>>)>> }

\* n-ary operator nodes by operator character, lower limit and upper limit
NaryNodes ==
    {M("nary", c \o l \o u \o <<M("e", <<MR(<<"a">>)>>)>>) :
        c \in NaryOperators, l \in Slot("low"), u \in Slot("up")}

\* the characters a generated math text is made of: division sign, pi,
\* multiplication sign, a digit, a letter, a space
TextChars == {"U+00F7", "U+03C0", "U+00D7", "2", "a", " "}

MathTexts == SeqsUpTo(TextChars, MaxText)

\* a table cell: with text, with a paragraph of spaces only, without text
Cell(kind) ==
    W("tc", <<>>,
      <<Paragraph(<<>>, IF kind = "text" THEN <<TextRun(<<"a">>)>>
                        ELSE IF kind = "blank" THEN <<TextRun(<<" ", " ">>)>>
                        ELSE <<>>)>>)

\* a row of n cells with text, the cell at position gap of the given kind
Row(n, gap, kind) ==
    W("tr", <<>>, [k \in 1..n |-> Cell(IF k = gap THEN kind ELSE "text")])

\* tables by the lengths of their rows; the first row may have one cell
\* that is blank or without text
Tables ==
    { W("tbl", <<>>,
        [k \in 1..Len(lens) |-> Row(lens[k], IF k = 1 THEN gap ELSE 0, kind)]) :
        lens \in SeqsUpTo(0..MaxRowLen, MaxRows),
        gap \in 0..2, kind \in {"blank", "none"} }

\* the body-level nodes a generated document is made of
BodyNodes ==
    { Paragraph(<<>>, <<TextRun(<<"x">>), W("r", <<>>, <<Drawing(<<"r", "I", "d", "5">>, <<"P", "i", "c">>)>>)>>),
      Paragraph(<<>>, <<W("r", <<>>, <<Pict(<<"r", "I", "d", "7">>)>>)>>),
      W("tbl", <<>>, <<W("tr", <<>>,
            <<W("tc", <<>>, <<Paragraph(<<>>, <<W("r", <<>>, <<Drawing(<<"r", "I", "d", "6">>, <<"C", "e", "l", "l">>)>>)>>)>>),
              Cell("text")>>)>>),
      W("sdt", <<>>,
        <<Paragraph(<<>>, <<TextRun(<<"x">>)>>),
          W("sdtContent", <<>>, <<Paragraph(<<>>, <<TextRun(<<"V", "a", "l", "u", "e", ":", " ">>)>>)>>)>>) }

Documents ==
    { W("document", <<>>, <<W("body", <<>>, nodes)>>) : nodes \in SeqsUpTo(BodyNodes, MaxBody) }

\* a paragraph of one text run
TextParagraph(text) == Paragraph(<<>>, <<TextRun(text)>>)

\* a table of one row of one cell with text
SmallTable == W("tbl", <<>>, <<Row(1, 0, "text")>>)

\* the items a generated item sequence is made of, before they are given
\* their places: texts, math, scripts with and without content, images
ItemKinds ==
    { Item("text", <<"x">>, <<>>, <<>>),
      Item("text", <<" ">>, <<>>, <<>>),
      Item("math", <<"\\", "p", "i">>, <<>>, <<>>),
      Item("superscript", <<"2">>, <<>>, <<>>),
      Item("subscript", <<"i">>, <<>>, <<>>),
      Item("superscript", <<>>, <<>>, <<>>),
      Item("image", <<"r", "I", "d", "5">>, <<"P", "i", "c">>, <<>>),
      Item("wmf", <<"r", "I", "d", "7">>, <<"t">>, <<>>) }

\* item sequences, each item marked with its place
ItemSequences ==
    { [k \in 1..Len(kinds) |-> [kinds[k] EXCEPT !.src = << <<k>> >>]] :
        kinds \in SeqsUpTo(ItemKinds, MaxItems) }

\* the children of a generated table cell: paragraphs with text, with a
\* line break, without runs, with text between spaces, with math, and a
\* table
CellKinds ==
    { TextParagraph(<<"a">>),
      Paragraph(<<>>, <<W("r", <<>>, <<T(<<"a">>), BR>>), TextRun(<<"b">>)>>),
      Paragraph(<<>>, <<>>),
      TextParagraph(<<" ", "c", " ">>),
      Paragraph(<<>>, <<OMath(<<MR(PI)>>)>>),
      SmallTable }

\* tables of one row of one cell, and the table without rows
CellTables ==
    { W("tbl", <<>>, <<W("tr", <<>>, <<W("tc", <<>>, kids)>>)>>) :
        kids \in SeqsUpTo(CellKinds, MaxRuns) }
    \cup { W("tbl", <<>>, <<>>) }

\* body-level nodes of a generated document, some of them containers that
\* hold paragraphs and tables as children and below their children
ContainerNodes ==
    { TextParagraph(<<"x">>),
      SmallTable,
      W("sdt", <<>>, <<TextParagraph(<<"y">>), SmallTable,
                       W("sdtContent", <<>>, <<TextParagraph(<<"z">>), SmallTable>>)>>),
      W("ins", <<>>, <<W("sdtContent", <<>>, <<TextParagraph(<<"z">>)>>)>>),
      W("sdt", <<>>, <<SmallTable,
                       Paragraph(<<>>, <<W("r", <<>>, <<Drawing(<<"r", "I", "d", "5">>, <<"P", "i", "c">>)>>)>>),
                       TextParagraph(<<"y">>)>>) }

ContainerDocuments ==
    { W("document", <<>>, <<W("body", <<>>, nodes)>>) :
        nodes \in SeqsUpTo(ContainerNodes, MaxBody) }

\* inner below n nested w:ins elements
RECURSIVE Nested(_, _)
Nested(n, inner) == IF n = 0 THEN inner ELSE W("ins", <<>>, <<Nested(n - 1, inner)>>)

\* a paragraph whose math is nested too deep to be transpiled, while the
\* paragraph can be serialized
DeepMathParagraph ==
    Paragraph(<<>>, <<OMath(<<M("box", <<M("box", <<M("box", <<MR(<<"d">>)>>)>>)>>)>>)>>)

\* a paragraph nested too deep to be extracted and to be serialized
VeryDeepParagraph == Paragraph(<<>>, <<Nested(RecursionLimit, TextRun(<<"d">>))>>)

\* body-level nodes of a generated document, for some of which the
\* conversion raises
FailingNodes ==
    { TextParagraph(<<"a">>),
      SmallTable,
      DeepMathParagraph,
      W("sdt", <<>>, <<TextParagraph(<<"c">>), DeepMathParagraph, TextParagraph(<<"e">>)>>),
      W("tbl", <<>>, <<W("tr", <<>>, <<Cell("text"), W("tc", <<>>, <<DeepMathParagraph>>)>>)>>),
      VeryDeepParagraph }

FailingDocuments ==
    { W("document", <<>>, <<W("body", <<>>, nodes)>>) :
        nodes \in SeqsUpTo(FailingNodes, MaxBody) }

\* the stem of the path of a generated document
DocName == <<"d", "o", "c">>

(***************************************************************************)
(* The state machines.                                                     *)
(***************************************************************************)
\* the module is loaded: lines 21-22
PNG_COUNT_initial == 1
WMF_COUNT_initial == 1

InitFunction(inputs) ==
    /\ PNG_COUNT = PNG_COUNT_initial
    /\ WMF_COUNT = WMF_COUNT_initial
    /\ processed_nodes = {}
    /\ pc = "idle"
    /\ input \in inputs
    /\ calls = 0
    /\ returned = <<>>
    /\ content_items = <<>>
    /\ merged = <<>>
    /\ rows = <<>>
    /\ body = <<>>
    /\ i = 0
    /\ out_lines = <<>>
    /\ started = <<>>

\* ---- text_of_run on a run ----
InitRun == InitFunction(Runs)

CallTextOfRun ==
    /\ calls < MaxCalls
    /\ calls' = calls + 1
    /\ returned' = Append(returned, text_of_run(input))
    /\ UNCHANGED <<PNG_COUNT, WMF_COUNT, processed_nodes, pc, input, content_items,
                   merged, rows, body, i, out_lines, started>>

NextRun == CallTextOfRun

SpecRun == InitRun /\ [][NextRun]_vars

\* ---- omml_to_latex on a math node ----
InitMath == InitFunction(MathNodes)

CallOmmlToLatex ==
    /\ calls < MaxCalls
    /\ calls' = calls + 1
    /\ returned' = Append(returned, omml_to_latex(input))
    /\ UNCHANGED <<PNG_COUNT, WMF_COUNT, processed_nodes, pc, input, content_items,
                   merged, rows, body, i, out_lines, started>>

NextMath == CallOmmlToLatex

SpecMath == InitMath /\ [][NextMath]_vars

\* ---- omml_to_latex on a math node with missing child groups ----
InitPartial == InitFunction(PartialMath)

SpecPartial == InitPartial /\ [][NextMath]_vars

\* ---- convert_math_operator on a text, then on what it returned ----
InitOperator == InitFunction(MathTexts)

CallConvertMathOperator ==
    /\ calls < MaxCalls
    /\ calls' = calls + 1
    /\ returned' = Append(returned,
                          convert_math_operator(IF returned = <<>> THEN input
                                                ELSE returned[Len(returned)]))
    /\ UNCHANGED <<PNG_COUNT, WMF_COUNT, processed_nodes, pc, input, content_items,
                   merged, rows, body, i, out_lines, started>>

NextOperator == CallConvertMathOperator

SpecOperator == InitOperator /\ [][NextOperator]_vars

\* ---- merge_superscripts_subscripts on an item sequence, iteration by iteration ----
InitMerge == InitFunction(ItemSequences)

\* lines 482-483: the function is entered
MergeEnter ==
    /\ pc \in {"idle", "done"}
    /\ calls < MaxCalls
    /\ calls' = calls + 1
    /\ content_items' = input
    /\ merged' = <<>>
    /\ i' = 1
    /\ pc' = "merge"
    /\ UNCHANGED <<PNG_COUNT, WMF_COUNT, processed_nodes, input, returned, rows, body,
                   out_lines, started>>

\* one pass of the loop of line 484 appends item and leaves the index at next
MergeStep(item, next) ==
    /\ merged' = Append(merged, item)
    /\ i' = next
    /\ UNCHANGED <<PNG_COUNT, WMF_COUNT, processed_nodes, pc, input, calls, returned,
                   content_items, rows, body, out_lines, started>>

\* lines 486-510: a text followed by scripts with content
MergeFold ==
    /\ pc = "merge" /\ i <= Len(content_items)
    /\ content_items[i].type = "text"
    /\ \E scan \in {ScanScripts(content_items, i + 1, <<>>, <<>>, content_items[i].src)} :
           /\ scan.sup # <<>> \/ scan.sub # <<>>
           /\ MergeStep(Item("math", FoldExpr(content_items[i].cont, scan.sub, scan.sup),
                              <<>>, scan.src),
                         AfterFold(i, scan.j))

\* lines 486-500 and 511-513: a text not followed by scripts with content
MergeKeep ==
    /\ pc = "merge" /\ i <= Len(content_items)
    /\ content_items[i].type = "text"
    /\ \E scan \in {ScanScripts(content_items, i + 1, <<>>, <<>>, content_items[i].src)} :
           /\ scan.sup = <<>> /\ scan.sub = <<>>
           /\ MergeStep(content_items[i], i + 1)

\* lines 514-523: an item that is not a text
MergeOther ==
    /\ pc = "merge" /\ i <= Len(content_items)
    /\ content_items[i].type # "text"
    /\ MergeStep(Unfolded(content_items[i]), i + 1)

\* line 524: the loop is left and merged returned
MergeReturn ==
    /\ pc = "merge" /\ i > Len(content_items)
    /\ pc' = "done"
    /\ returned' = Append(returned, merged)
    /\ UNCHANGED <<PNG_COUNT, WMF_COUNT, processed_nodes, input, calls, content_items,
                   merged, rows, body, i, out_lines, started>>

NextMerge ==
    \/ MergeEnter
    \/ MergeFold
    \/ MergeKeep
    \/ MergeOther
    \/ MergeReturn

SpecMerge == InitMerge /\ [][NextMerge]_vars

\* ---- lines 647-648 of paragraph_to_md call by call and pass by pass: ----
\* ---- extract_paragraph_content, then merge_superscripts_subscripts   ----
\* body holds the calls of extract_paragraph_content that are still to be
\* made, the next one first; started the nodes that passed line 405, in order
InitSteps == InitFunction(StepParagraphs)

\* line 647: extract_paragraph_content(p) is called without processed_nodes
ExtractEnter ==
    /\ pc \in {"idle", "done"}
    /\ calls < MaxCalls
    /\ calls' = calls + 1
    /\ body' = <<[node |-> input, id |-> <<>>]>>
    /\ processed_nodes' = NewProcessedNodes(processed_nodes)
    /\ content_items' = <<>>
    /\ merged' = <<>>
    /\ started' = <<>>
    /\ pc' = "extract"
    /\ UNCHANGED <<PNG_COUNT, WMF_COUNT, input, returned, rows, i, out_lines>>

\* lines 403-473: one call of extract_paragraph_content on a node whose
\* children are not descended to: a node seen before, a math group, a run, a table
ExtractLeaf ==
    /\ pc = "extract" /\ body # <<>>
    /\ \E e \in {Head(body)} :
           /\ e.id \in processed_nodes \/ strip_ns(e.node) \in {"oMath", "oMathPara", "r", "tbl"}
           /\ body' = Tail(body)
           /\ processed_nodes' = processed_nodes \cup {e.id}
           /\ started' = IF e.id \in processed_nodes THEN started ELSE Append(started, e.id)
           /\ \E results \in {IF e.id \in processed_nodes THEN <<>>
                               ELSE IF strip_ns(e.node) \in {"oMath", "oMathPara"}
                                    THEN MathItems(<<e>>)
                               ELSE IF strip_ns(e.node) = "r" THEN RunItems(e.node, e.id)
                               ELSE <<>>} :
                  content_items' = content_items \o results
    /\ UNCHANGED <<PNG_COUNT, WMF_COUNT, pc, input, calls, returned, merged, rows, i,
                   out_lines>>

\* lines 403-408 and 475-476: one call on a node of another kind; the calls
\* on its children are made next, in document order
ExtractDescend ==
    /\ pc = "extract" /\ body # <<>>
    /\ \E e \in {Head(body)} :
           /\ e.id \notin processed_nodes
           /\ strip_ns(e.node) \notin {"oMath", "oMathPara", "r", "tbl"}
           /\ processed_nodes' = processed_nodes \cup {e.id}
           /\ started' = Append(started, e.id)
           /\ body' = Children(e.node, e.id) \o Tail(body)
    /\ UNCHANGED <<PNG_COUNT, WMF_COUNT, pc, input, calls, returned, content_items, merged,
                   rows, i, out_lines>>

\* lines 647-648, 482-483: the outermost call returns and
\* merge_superscripts_subscripts is entered with its result
ExtractReturn ==
    /\ pc = "extract" /\ body = <<>>
    /\ merged' = <<>>
    /\ i' = 1
    /\ pc' = "merge"
    /\ UNCHANGED <<PNG_COUNT, WMF_COUNT, processed_nodes, input, calls, returned,
                   content_items, rows, body, out_lines, started>>

NextSteps ==
    \/ ExtractEnter
    \/ ExtractLeaf
    \/ ExtractDescend
    \/ ExtractReturn
    \/ MergeFold
    \/ MergeKeep
    \/ MergeOther
    \/ MergeReturn

SpecSteps == InitSteps /\ [][NextSteps]_vars

\* every call and every pass that can be made is made: the interpreter
\* does not stop in the middle of a function
SpecStepsFair == InitSteps /\ [][NextSteps]_vars /\ WF_vars(NextSteps)

\* ---- omml_to_latex on an n-ary operator node ----
InitNary == InitFunction(NaryNodes)

SpecNary == InitNary /\ [][NextMath]_vars

\* ---- paragraph_to_md on a paragraph, as convert_document calls it ----
InitParagraph == InitFunction(Paragraphs)

CallParagraphToMd ==
    /\ calls < MaxCalls
    /\ \E md \in {paragraph_to_md(input, <<>>, DocName, <<".">>, PNG_COUNT, WMF_COUNT,
                                    processed_nodes)} :
           /\ returned' = Append(returned, md.line)
           /\ content_items' = md.content_items
           /\ merged' = md.merged
           /\ PNG_COUNT' = md.png
           /\ WMF_COUNT' = md.wmf
           /\ processed_nodes' = md.seen
    /\ calls' = calls + 1
    /\ UNCHANGED <<pc, input, rows, body, i, out_lines, started>>

NextParagraph == CallParagraphToMd

SpecParagraph == InitParagraph /\ [][NextParagraph]_vars

\* ---- paragraph_to_md on a paragraph with nodes of unknown kinds ----
InitWrapped == InitFunction(WrappedParagraphs)

SpecWrapped == InitWrapped /\ [][NextParagraph]_vars

\* ---- paragraph_to_md on a paragraph with image references ----
InitImages == InitFunction(ImageParagraphs)

SpecImages == InitImages /\ [][NextParagraph]_vars

\* ---- paragraph_to_md on a paragraph with a style identifier ----
InitHeading == InitFunction(StyledParagraphs)

SpecHeading == InitHeading /\ [][NextParagraph]_vars

\* ---- paragraph_to_md on a paragraph with nested math groups ----
InitNested == InitFunction(NestedParagraphs)

SpecNested == InitNested /\ [][NextParagraph]_vars

\* ---- table_to_html on a table ----
InitTable == InitFunction(Tables)

CallTableToHtml ==
    /\ calls < MaxCalls
    /\ \E t \in {table_to_html(input, <<>>, PNG_COUNT, WMF_COUNT, processed_nodes)} :
           /\ returned' = Append(returned, t.html)
           /\ rows' = t.rows
           /\ PNG_COUNT' = t.png
           /\ WMF_COUNT' = t.wmf
           /\ processed_nodes' = t.seen
    /\ calls' = calls + 1
    /\ UNCHANGED <<pc, input, content_items, merged, body, i, out_lines, started>>

NextTable == CallTableToHtml

SpecTable == InitTable /\ [][NextTable]_vars

\* ---- table_to_html on a table of one cell ----
InitCells == InitFunction(CellTables)

SpecCells == InitCells /\ [][NextTable]_vars

\* ---- convert_document on one document tree, call after call, in one process or in a new one ----
Init ==
    /\ PNG_COUNT = PNG_COUNT_initial
    /\ WMF_COUNT = WMF_COUNT_initial
    /\ processed_nodes = {}
    /\ pc = "idle"
    /\ calls = 0
    /\ returned = <<>>
    /\ input \in Documents
    /\ content_items = <<>>
    /\ merged = <<>>
    /\ rows = <<>>
    /\ body = <<>>
    /\ i = 0
    /\ out_lines = <<>>
    /\ started = <<>>

\* the program is started again: the module is loaded anew
ModuleLoad ==
    /\ pc = "done"
    /\ pc' = "idle"
    /\ PNG_COUNT' = PNG_COUNT_initial
    /\ WMF_COUNT' = WMF_COUNT_initial
    /\ processed_nodes' = {}
    /\ UNCHANGED <<input, calls, returned, content_items, merged, rows, body, i,
                   out_lines, started>>

\* lines 707-736: convert_document is entered
ConvertDocument ==
    /\ pc \in {"idle", "done", "raised"}
    /\ calls < MaxCalls
    /\ calls' = calls + 1
    /\ body' = LET b == BodyOf(input) IN Children(b.node, b.id)
    /\ i' = 1
    /\ out_lines' = <<>>
    /\ started' = <<PNG_COUNT, WMF_COUNT>>
    /\ pc' = "loop"
    /\ UNCHANGED <<PNG_COUNT, WMF_COUNT, processed_nodes, input, returned, content_items,
                   merged, rows>>

\* one pass of the loop of line 737 leaves r
LoopStep(r) ==
    /\ out_lines' = r.out
    /\ PNG_COUNT' = r.png
    /\ WMF_COUNT' = r.wmf
    /\ processed_nodes' = r.seen
    /\ i' = i + 1
    /\ UNCHANGED <<pc, input, calls, returned, content_items, merged, rows, body, started>>

\* lines 743-749
ProcessTable ==
    /\ pc = "loop" /\ i <= Len(body)
    /\ ~Raises(body[i].node)
    /\ strip_ns(body[i].node) = "tbl"
    /\ \E r \in {ConvertTable(body[i], DocName, out_lines, PNG_COUNT, WMF_COUNT,
                                processed_nodes)} : LoopStep(r)

\* lines 751-771
ProcessParagraph ==
    /\ pc = "loop" /\ i <= Len(body)
    /\ ~Raises(body[i].node)
    /\ strip_ns(body[i].node) = "p"
    /\ \E r \in {ConvertParagraph(body[i], DocName, out_lines, PNG_COUNT, WMF_COUNT,
                                    processed_nodes)} : LoopStep(r)

\* lines 773-793
ProcessOther ==
    /\ pc = "loop" /\ i <= Len(body)
    /\ ~Raises(body[i].node)
    /\ strip_ns(body[i].node) \notin {"tbl", "p"}
    /\ \E r \in {ConvertSubs(Children(body[i].node, body[i].id), 1, DocName, out_lines,
                               PNG_COUNT, WMF_COUNT, processed_nodes)} : LoopStep(r)

\* line 809: the call returns; the call is recorded with the counters it
\* started from and those it leaves
Return ==
    /\ pc = "loop" /\ i > Len(body)
    /\ pc' = "done"
    /\ returned' = Append(returned, [doc |-> input, started |-> started,
                                     result |-> Join(<<"\n", "\n">>, out_lines),
                                     finished |-> <<PNG_COUNT, WMF_COUNT>>])
    /\ UNCHANGED <<PNG_COUNT, WMF_COUNT, processed_nodes, input, calls, content_items,
                   merged, rows, body, i, out_lines, started>>

Next ==
    \/ ModuleLoad
    \/ ConvertDocument
    \/ ProcessTable
    \/ ProcessParagraph
    \/ ProcessOther
    \/ Return

Spec == Init /\ [][Next]_vars

\* ---- convert_document on a document with nodes whose conversion raises ----
InitFailing ==
    /\ PNG_COUNT = PNG_COUNT_initial
    /\ WMF_COUNT = WMF_COUNT_initial
    /\ processed_nodes = {}
    /\ pc = "idle"
    /\ calls = 0
    /\ returned = <<>>
    /\ input \in FailingDocuments
    /\ content_items = <<>>
    /\ merged = <<>>
    /\ rows = <<>>
    /\ body = <<>>
    /\ i = 0
    /\ out_lines = <<>>
    /\ started = <<>>

\* lines 795-798: the conversion of the node raises, the handler prints the
\* node and the loop goes on
ProcessRaising ==
    /\ pc = "loop" /\ i <= Len(body)
    /\ Raises(body[i].node)
    /\ SerializeFrames(body[i].node) <= RecursionLimit
    /\ \E r \in {RaisedIn(body[i], DocName, out_lines, PNG_COUNT, WMF_COUNT,
                            processed_nodes)} : LoopStep(r)

\* lines 795-797: the conversion of the node raises and the handler raises
\* in turn when it serializes the node; the exception leaves convert_document
HandlerRaises ==
    /\ pc = "loop" /\ i <= Len(body)
    /\ Raises(body[i].node)
    /\ SerializeFrames(body[i].node) > RecursionLimit
    /\ \E r \in {RaisedIn(body[i], DocName, out_lines, PNG_COUNT, WMF_COUNT,
                            processed_nodes)} :
           /\ out_lines' = r.out
           /\ PNG_COUNT' = r.png
           /\ WMF_COUNT' = r.wmf
    /\ pc' = "raised"
    /\ UNCHANGED <<processed_nodes, input, calls, returned, content_items, merged, rows,
                   body, i, started>>

NextFailing ==
    \/ ConvertDocument
    \/ ProcessTable
    \/ ProcessParagraph
    \/ ProcessRaising
    \/ HandlerRaises
    \/ Return

SpecFailing == InitFailing /\ [][NextFailing]_vars

\* ---- convert_document on a document with container nodes ----
InitContainers ==
    /\ PNG_COUNT = PNG_COUNT_initial
    /\ WMF_COUNT = WMF_COUNT_initial
    /\ processed_nodes = {}
    /\ pc = "idle"
    /\ calls = 0
    /\ returned = <<>>
    /\ input \in ContainerDocuments
    /\ content_items = <<>>
    /\ merged = <<>>
    /\ rows = <<>>
    /\ body = <<>>
    /\ i = 0
    /\ out_lines = <<>>
    /\ started = <<>>

SpecContainers == InitContainers /\ [][Next]_vars

(***************************************************************************)
(* The properties.                                                         *)
(***************************************************************************)
\* the number of places where sub occurs in s
Occurrences(s, sub) ==
    Cardinality({k \in 1..(Len(s) - Len(sub) + 1) : SubSeq(s, k, k + Len(sub) - 1) = sub})

\* node identity p comes before node identity q in a depth-first pre-order
\* walk: p is an ancestor of q, or p branches off to the left of q
PathBefore(p, q) ==
    \E n \in 0..Len(p) :
        /\ n <= Len(q)
        /\ SubSeq(p, 1, n) = SubSeq(q, 1, n)
        /\ \/ n = Len(p) /\ n < Len(q)
           \/ n < Len(p) /\ n < Len(q) /\ p[n + 1] < q[n + 1]

\* the items of the given type among the merged items of the paragraph
ItemsOfType(type) == {k \in 1..Len(merged) : merged[k].type = type}

\* ---------------------------------------------------------------- C1
\* C1: two calls of convert_document on the same document tree that start
\* from the same values of the raster and vector image counters return the
\* same string and leave the same values in the counters.
C1_Deterministic ==
    \A a, b \in 1..Len(returned) :
        (returned[a].doc = returned[b].doc /\ returned[a].started = returned[b].started)
            => /\ returned[a].result = returned[b].result
               /\ returned[a].finished = returned[b].finished

\* a document with image references has been converted twice, both times
\* from the counters of a newly loaded module
C1_Witness ==
    /\ Len(returned) = 2
    /\ returned[1].doc = returned[2].doc
    /\ returned[1].started = returned[2].started
    /\ returned[1].finished # returned[1].started
    /\ returned[2].result # <<>>

\* ---------------------------------------------------------------- C2
\* C2 as claimed: converting a paragraph twice in succession yields the
\* same text, whatever the paragraph holds.
C2_TwiceIdentical == calls = 2 => returned[1] = returned[2]

\* C2: each call of paragraph_to_md (given a document path and an output
\* directory) advances the raster counter by the number of raster image
\* items of the paragraph and the vector counter by the number of vector
\* image items, and changes no other state; so two conversions in
\* succession yield the same text exactly when the paragraph has no image
\* item.
C2_IdenticalUnlessImages ==
    /\ PNG_COUNT = PNG_COUNT_initial + calls * Cardinality(ItemsOfType("image"))
    /\ WMF_COUNT = WMF_COUNT_initial + calls * Cardinality(ItemsOfType("wmf"))
    /\ calls = 2 =>
          (returned[1] = returned[2] <=> ItemsOfType("image") \cup ItemsOfType("wmf") = {})

\* a paragraph with an image reference has been converted twice
C2_Witness ==
    /\ calls = 2
    /\ ItemsOfType("image") # {}
    /\ returned[1] # returned[2]
    /\ PNG_COUNT > PNG_COUNT_initial + 1

\* ---------------------------------------------------------------- C3
\* C3: the items extract_paragraph_content returns are in document order:
\* of two items, the one whose originating node comes first in a
\* depth-first pre-order walk of the paragraph comes first in the sequence.
C3_DocumentOrder ==
    \A a, b \in 1..Len(content_items) :
        a < b => PathBefore(content_items[a].src[1], content_items[b].src[1])

\* ---------------------------------------------------------------- C4
\* the merged items that hold input item a
Holders(a) ==
    {k \in 1..Len(merged) :
        \E p \in 1..Len(merged[k].src) : merged[k].src[p] = content_items[a].src[1]}

\* C4: merge_superscripts_subscripts keeps the order of its input: every
\* input item is held by exactly one output item, once; every output item
\* holds an input item; and if input item a precedes input item b, the
\* output item holding a is the one holding b or precedes it.  An output
\* item holding a single image or text item is that item unchanged.
C4_MergeKeepsOrder ==
    /\ \A a \in 1..Len(content_items) : Cardinality(Holders(a)) = 1
    /\ \A k \in 1..Len(merged) :
          /\ merged[k].src # <<>>
          /\ \A p, q \in 1..Len(merged[k].src) :
                p # q => merged[k].src[p] # merged[k].src[q]
          /\ \A p \in 1..Len(merged[k].src) :
                \E a \in 1..Len(content_items) : content_items[a].src[1] = merged[k].src[p]
    /\ \A a, b \in 1..Len(content_items) :
          a < b => \A ka \in Holders(a), kb \in Holders(b) : ka <= kb
    /\ \A a \in 1..Len(content_items) : \A k \in Holders(a) :
          (Len(merged[k].src) = 1 /\ content_items[a].type \in {"text", "image", "wmf"})
              => merged[k] = content_items[a]

\* a text and a script were folded and another item follows the fold
C4_Witness ==
    /\ Len(content_items) = 3
    /\ Len(merged) = 2
    /\ Len(merged[1].src) = 2
    /\ merged[2].type = "wmf"

\* ---------------------------------------------------------------- C5
IsScript(item) == item.type \in {"superscript", "subscript"}

\* the last of the script items that follow item a without a gap (a itself
\* if none follows)
LastScript(a) ==
    CHOOSE b \in a..Len(content_items) :
        /\ \A j \in (a + 1)..b : IsScript(content_items[j])
        /\ b = Len(content_items) \/ ~IsScript(content_items[b + 1])

\* the texts of the items of the given type among items a+1..b, in order
RECURSIVE ScriptText(_, _, _)
ScriptText(type, a, b) ==
    IF a >= b THEN <<>>
    ELSE (IF content_items[a + 1].type = type THEN content_items[a + 1].cont ELSE <<>>)
         \o ScriptText(type, a + 1, b)

\* what the text item a and the scripts that follow it are to become
Folded(a) ==
    LET base == content_items[a].cont
        S == ScriptText("subscript", a, LastScript(a))
        P == ScriptText("superscript", a, LastScript(a))
    IN  IF LastScript(a) = a THEN [type |-> "text", cont |-> base]
        ELSE IF S # <<>> /\ P # <<>>
             THEN [type |-> "math", cont |-> base \o <<"_", "{">> \o S \o <<"}", "^", "{">> \o P \o <<"}">>]
        ELSE IF S # <<>> THEN [type |-> "math", cont |-> base \o <<"_", "{">> \o S \o <<"}">>]
        ELSE [type |-> "math", cont |-> base \o <<"^", "{">> \o P \o <<"}">>]

FirstQualified(node, ns, tag) ==
    LET at == {k \in 1..Len(node.kids) : node.kids[k].ns = ns /\ node.kids[k].tag = tag}
    IN  IF at = {} THEN NoNode
        ELSE node.kids[CHOOSE k \in at : \A j \in at : k <= j]

\* the first direct child of node with the given local name
FirstUnqualified(node, tag) ==
    LET at == {k \in 1..Len(node.kids) : node.kids[k].tag = tag}
    IN  IF at = {} THEN NoNode
        ELSE node.kids[CHOOSE k \in at : \A j \in at : k <= j]

\* the group of a fraction: by qualified tag or, failing that, by local name
GroupOf(node, tag) ==
    IF FirstQualified(node, "m", tag) # NoNode THEN FirstQualified(node, "m", tag)
    ELSE FirstUnqualified(node, tag)

\* C6: for a fraction node whose numerator group transpiles to a and whose
\* denominator group transpiles to b (each group found by its qualified
\* tag or, failing that, by its local name; a missing group transpiles to
\* the empty string), omml_to_latex returns \frac{a}{b}; with the plain
\* texts a and b it returns \frac{a}{b} literally.
C6_Fraction ==
    \A k \in 1..Len(returned) :
        /\ input.tag = "f" =>
              returned[k] = <<"\\", "f", "r", "a", "c", "{">> \o LatexOfGroup(GroupOf(input, "num"))
                            \o <<"}", "{">> \o LatexOfGroup(GroupOf(input, "den")) \o <<"}">>
        /\ input = M("f", <<M("num", <<MR(<<"a">>)>>), M("den", <<MR(<<"b">>)>>)>>)
              => returned[k] = <<"\\", "f", "r", "a", "c", "{", "a", "}", "{", "b", "}">>

\* a fraction a over b was transpiled whose denominator comes first and is
\* found by its local name only
C6_Witness ==
    /\ Len(returned) >= 1
    /\ input.tag = "f"
    /\ Len(input.kids) = 2
    /\ input.kids[1].ns # "m" /\ input.kids[1].tag = "den"
    /\ returned[1] = <<"\\", "f", "r", "a", "c", "{", "a", "}", "{", "b", "}">>

\* ---------------------------------------------------------------- C7
\* the direct row children of the table
DirectRows == SelectSeq(input.kids, LAMBDA n : n.ns = "w" /\ n.tag = "tr")

\* the number of direct cell children of each direct row child
Widths ==
    [k \in 1..Len(DirectRows) |->
        Len(SelectSeq(DirectRows[k].kids, LAMBDA n : n.ns = "w" /\ n.tag = "tc"))]

\* the largest number of cells in a row
Widest == CHOOSE w \in 0..MaxRowLen :
              /\ \A k \in 1..Len(Widths) : Widths[k] <= w
              /\ w = 0 \/ \E k \in 1..Len(Widths) : Widths[k] = w

\* the widths of the rows that have a cell
CellRows == SelectSeq(Widths, LAMBDA w : w > 0)

\* C7 as claimed: the grid has one row per direct row child of the table,
\* each as long as the longest row.
C7_OneRowPerRowChild ==
    calls >= 1 =>
        /\ Len(rows) = Len(DirectRows)
        /\ \A k \in 1..Len(rows) : Len(rows[k]) = Widest

\* C7: the grid table_to_html builds has one row per direct row child that
\* has at least one direct cell child, in order (a row child without cells
\* is left out); after padding every row has the length of the longest row,
\* the cells beyond those the row child has being empty strings.  Rows of
\* lengths 3, 1, 2 give three rows of length 3.
C7_Rectangular ==
    calls >= 1 =>
        /\ Len(rows) = Len(CellRows)
        /\ \A k \in 1..Len(rows) :
              /\ Len(rows[k]) = Widest
              /\ \A c \in (CellRows[k] + 1)..Widest : rows[k][c] = <<>>
        /\ Widths = <<3, 1, 2>> =>
              (Len(rows) = 3 /\ \A k \in 1..3 : Len(rows[k]) = 3)

\* a table of three row children, the second without cells and the third
\* shorter than the first, was flattened
C7_Witness ==
    /\ calls >= 1
    /\ Widths = <<2, 0, 1>>
    /\ Len(rows) = 2
    /\ rows[2] = <<<<"a">>, <<>>>>

\* ---------------------------------------------------------------- C8
\* every cell of the first row of the grid has a character that is not
\* whitespace
FirstRowFilled == \A c \in 1..Len(rows[1]) : \E p \in 1..Len(rows[1][c]) : ~IsSpace(rows[1][c][p])

\* C8: table_to_html renders the first row of the (padded) grid as a header
\* section, thead with one th per cell and the other rows in tbody, if and
\* only if every cell of that row is non-empty after trimming; otherwise
\* there is no thead and no th, and every row, the first included, is a
\* body row of td cells.
C8_HeaderRule ==
    \A k \in 1..Len(returned) :
        rows # <<>> =>
            LET html == returned[k]
                n_body == IF FirstRowFilled THEN Len(rows) - 1 ELSE Len(rows)
            IN  /\ Occurrences(html, <<"<", "t", "h", "e", "a", "d", ">">>) = (IF FirstRowFilled THEN 1 ELSE 0)
                /\ Occurrences(html, <<"<", "t", "h", ">">>) = (IF FirstRowFilled THEN Len(rows[1]) ELSE 0)
                /\ Occurrences(html, <<"<", "t", "b", "o", "d", "y", ">">>) = 1
                /\ Occurrences(html, <<"<", "t", "d", ">">>) = n_body * Len(rows[1])
                /\ Occurrences(html, <<"<", "t", "r", ">">>) = Len(rows)

\* a table whose first row has two filled cells was rendered with a header
C8_Witness ==
    /\ Len(returned) >= 1
    /\ Len(rows) = 2
    /\ rows[1] = <<<<"a">>, <<"a">>>>
    /\ Contains(returned[1], <<"<", "t", "h", "e", "a", "d", ">">>)
    /\ Contains(returned[1], <<"<", "t", "h", ">", "a", "<", "/", "t", "h", ">">>)

\* ---------------------------------------------------------------- C9
\* the run has properties that carry an underline
Underlined ==
    \E k \in 1..Len(input.kids) :
        /\ input.kids[k].tag = "rPr"
        /\ \E j \in 1..Len(input.kids[k].kids) : input.kids[k].kids[j].tag = "u"

\* the text fragments of the run, in order
RawText == Concat([k \in 1..Len(input.kids) |->
                      IF input.kids[k].tag = "t" THEN input.kids[k].text ELSE <<>>])

\* the number of line breaks of the run
Breaks == Cardinality({k \in 1..Len(input.kids) : input.kids[k].tag = "br"})

\* the whitespace characters of the generated texts
Whitespace == {" ", "\t", "\n", "\r", "U+3000"}

\* C9: for a run whose properties carry an underline, text_of_run returns
\* the text of the run's fragments with every whitespace character (the
\* full-width space included) replaced by one underscore and every other
\* character unchanged, so the length is kept and two spaces become __;
\* for a run without underline the text is unchanged.  Each line break of
\* the run adds one newline after the text in both cases.
C9_UnderlineFill ==
    \A k \in 1..Len(returned) :
        /\ Len(returned[k]) = Len(RawText) + Breaks
        /\ \A p \in 1..Len(RawText) :
              returned[k][p] = IF Underlined /\ RawText[p] \in Whitespace
                               THEN "_" ELSE RawText[p]
        /\ \A p \in (Len(RawText) + 1)..Len(returned[k]) : returned[k][p] = "\n"
        /\ (Underlined /\ RawText = <<" ", " ">> /\ Breaks = 0) => returned[k] = <<"_", "_">>

\* an underlined run of two spaces was extracted
C9_Witness ==
    /\ Len(returned) >= 1
    /\ Underlined
    /\ RawText = <<" ", " ">>
    /\ returned[1] = <<"_", "_">>

\* ---------------------------------------------------------------- C10
\* the paragraph has no properties and only a math group holding pi
SoleMathPi == input = Paragraph(<<>>, <<OMath(<<MR(PI)>>)>>)

\* C10 as claimed: the line between the two $$ lines is \pi with the
\* spaces of the substitution table around it.
C10_DisplayWithSpaces ==
    \A k \in 1..Len(returned) :
        SoleMathPi => returned[k] = <<"\n", "\n", "$", "$", "\n", " ", "\\", "p", "i", " ", "\n", "$", "$", "\n", "\n">>

\* C10: a paragraph whose sole content is a math group holding pi becomes
\* the display block $$, \pi, $$ on three lines with a blank line before
\* and after; the transpiled math is trimmed, so the middle line is \pi
\* without spaces around it.
C10_DisplayTrimmed ==
    \A k \in 1..Len(returned) :
        SoleMathPi => returned[k] = <<"\n", "\n", "$", "$", "\n", "\\", "p", "i", "\n", "$", "$", "\n", "\n">>

\* the paragraph of the sole math group pi was converted
C10_Witness ==
    /\ Len(returned) >= 1
    /\ SoleMathPi
    /\ merged = <<Item("math", <<"\\", "p", "i">>, <<>>, <<<<1>>>>)>>
    /\ returned[1] = <<"\n", "\n", "$", "$", "\n", "\\", "p", "i", "\n", "$", "$", "\n", "\n">>

\* ---------------------------------------------------------------- C11
\* the paragraph has no properties and holds the text "Value: " followed by
\* a math group holding pi
ValueThenPi == input = Paragraph(<<>>, <<TextRun(<<"V", "a", "l", "u", "e", ":", " ">>), OMath(<<MR(PI)>>)>>)

\* C11 as claimed: the inline form has two spaces on each side of \pi
\* inside the dollar signs and nothing after the closing dollar sign.
C11_InlineTwoSpaces ==
    \A k \in 1..Len(returned) :
        ValueThenPi => returned[k] = <<"V", "a", "l", "u", "e", ":", " ", " ", "$", " ", " ", "\\", "p", "i", " ", " ", "$">>

\* C11: the text "Value: " followed by a math group holding pi becomes
\* the text, then space, dollar, space, the trimmed \pi, space, dollar,
\* space: two spaces after the colon, one space on each side of \pi inside
\* the dollar signs and one space after the closing dollar sign.
C11_InlineTrimmed ==
    \A k \in 1..Len(returned) :
        ValueThenPi => returned[k] = <<"V", "a", "l", "u", "e", ":", " ", " ", "$", " ", "\\", "p", "i", " ", "$", " ">>

\* the paragraph of "Value: " and pi was converted
C11_Witness ==
    /\ Len(returned) >= 1
    /\ ValueThenPi
    /\ Len(merged) = 2
    /\ merged[2].type = "math"
    /\ returned[1] = <<"V", "a", "l", "u", "e", ":", " ", " ", "$", " ", "\\", "p", "i", " ", "$", " ">>

\* ---------------------------------------------------------------- C12
\* the node kinds of the generated trees that neither function knows
UnknownKinds == {"box", "borderBox", "hyperlink", "ins", "smartTag", "custom"}

\* the children kids with every node of an unknown kind replaced by its
\* own children, at every depth
RECURSIVE Unwrapped(_)
Unwrapped(kids) ==
    IF kids = <<>> THEN <<>>
    ELSE (IF Head(kids).tag \in UnknownKinds THEN Unwrapped(Head(kids).kids)
          ELSE <<[Head(kids) EXCEPT !.kids = Unwrapped(@)]>>)
         \o Unwrapped(Tail(kids))

\* the kinds and the contents of the items
Plain(items) == [k \in 1..Len(items) |-> <<items[k].type, items[k].cont>>]

SlotText(tag) ==
    LET at == {k \in 1..Len(input.kids) : input.kids[k].tag = tag}
    IN  IF at = {} THEN <<>>
        ELSE IF input.kids[CHOOSE k \in at : TRUE].kids = <<MR(<<"a">>)>> THEN <<"a">>
        ELSE <<" ", "\\", "p", "i", " ">>

\* the operator of the n-ary node: empty if it has no operator character
OperatorText ==
    IF \E k \in 1..Len(input.kids) : input.kids[k].tag = "naryPr"
    THEN (IF FindDeep(input, "m", "t").text = <<"U+2211">> THEN <<"\\", "s", "u", "m">> ELSE <<"x">>)
    ELSE <<>>

\* what the math node is to become, each missing group an empty slot
SlotsFilled ==
    CASE input.tag = "f" ->
            <<"\\", "f", "r", "a", "c", "{">> \o SlotText("num") \o <<"}", "{">> \o SlotText("den") \o <<"}">>
      [] input.tag = "sSup" -> SlotText("base") \o <<"^", "{">> \o SlotText("sup") \o <<"}">>
      [] input.tag = "sSub" -> SlotText("base") \o <<"_", "{">> \o SlotText("sub") \o <<"}">>
      [] input.tag = "sSupSub" ->
            SlotText("base") \o <<"_", "{">> \o SlotText("sub") \o <<"}", "^", "{">> \o SlotText("sup") \o <<"}">>
      [] input.tag = "rad" ->
            IF SlotText("deg") = <<>> THEN <<"\\", "s", "q", "r", "t", "{">> \o SlotText("radicand") \o <<"}">>
            ELSE <<"\\", "s", "q", "r", "t", "[">> \o SlotText("deg") \o <<"]", "{">> \o SlotText("radicand") \o <<"}">>
      [] input.tag = "nary" ->
            OperatorText
            \o (IF SlotText("low") = <<>> THEN <<>>
                ELSE IF SlotText("up") = <<>> THEN <<"_", "{">> \o SlotText("low") \o <<"}">>
                ELSE <<"_", "{">> \o SlotText("low") \o <<"}", "^", "{">> \o SlotText("up") \o <<"}">>)

\* C13: a math node with a missing child group has an empty string in the
\* slot of that group and its other slots as usual: a fraction without
\* denominator gives \frac{num}{}, a script node without base or script the
\* form with that slot empty, a radical without radicand \sqrt{}, an n-ary
\* node without operator character its limits after an empty operator; the
\* conversion returns in every case.
C13_EmptySlot ==
    \A k \in 1..Len(returned) :
        /\ returned[k] = SlotsFilled
        /\ input = M("f", <<M("num", <<MR(<<"a">>)>>)>>) => returned[k] = <<"\\", "f", "r", "a", "c", "{", "a", "}", "{", "}">>
        /\ input = M("sSup", <<M("sup", <<MR(<<"a">>)>>)>>) => returned[k] = <<"^", "{", "a", "}">>
        /\ input = M("sSub", <<M("base", <<MR(<<"a">>)>>)>>) => returned[k] = <<"a", "_", "{", "}">>
        /\ input = M("rad", <<>>) => returned[k] = <<"\\", "s", "q", "r", "t", "{", "}">>
        /\ input = M("nary", <<M("low", <<MR(<<"a">>)>>), M("e", <<MR(<<"a">>)>>)>>)
              => returned[k] = <<"_", "{", "a", "}">>

\* a fraction without denominator was transpiled
C13_Witness ==
    /\ Len(returned) >= 1
    /\ input = M("f", <<M("num", <<MR(<<"a">>)>>)>>)
    /\ returned[1] = <<"\\", "f", "r", "a", "c", "{", "a", "}", "{", "}">>

\* ---------------------------------------------------------------- C14
\* the image references that carry no relationship identifier
NoIdentifier == {DrawingNoEmbed, AnchorNoBlip, PictNoId}

\* the paragraph without its image references that carry no identifier
WithoutNoIdentifier ==
    [input EXCEPT !.kids[1].kids = SelectSeq(@, LAMBDA n : n \notin NoIdentifier)]

\* C14: an image reference without relationship identifier yields no item,
\* the other items of the paragraph are those of the paragraph without that
\* reference, and the image counters advance as for the paragraph without it.
C14_AsIfAbsent ==
    calls >= 1 =>
        /\ Plain(content_items)
             = Plain(extract_paragraph_content(WithoutNoIdentifier, <<>>, {}).items)
        /\ PNG_COUNT = PNG_COUNT_initial + calls * Cardinality(ItemsOfType("image"))
        /\ WMF_COUNT = WMF_COUNT_initial + calls * Cardinality(ItemsOfType("wmf"))

\* ---------------------------------------------------------------- C15
\* the places of s where sub begins
Places(s, sub) ==
    {k \in 1..(Len(s) - Len(sub) + 1) : SubSeq(s, k, k + Len(sub) - 1) = sub}

DecimalDigits == <<"0", "1", "2", "3", "4", "5", "6", "7", "8", "9">>

IsDecimalDigit(c) == \E d \in 1..10 : DecimalDigits[d] = c

\* the number written in decimal digits from place k of s on, read after acc
RECURSIVE NumberFrom(_, _, _)
NumberFrom(s, k, acc) ==
    IF k > Len(s) \/ ~IsDecimalDigit(s[k]) THEN acc
    ELSE NumberFrom(s, k + 1, 10 * acc + (CHOOSE d \in 1..10 : DecimalDigits[d] = s[k]) - 1)

\* the numbers N of the image references of the kind whose path holds
\* marker, in output order
RefNumbers(s, marker) ==
    LET places == Places(s, marker)
    IN  [j \in 1..Cardinality(places) |->
            NumberFrom(s, (CHOOSE p \in places : Cardinality({q \in places : q < p}) = j - 1)
                          + Len(marker), 0)]

\* the numbers from, from + 1, ... up to but not including to
Consecutive(from, to) == [k \in 1..(to - from) |-> from + k - 1]

\* C15: in the text a conversion returns, the numbers of the raster image
\* references are, in output order, the value the raster counter had when
\* the conversion began and then each time one more, and the counter ends
\* one past the last number; likewise the vector image references with the
\* vector counter; so each rendered reference took the current value of the
\* counter of its kind, advanced it by one and left the other counter alone,
\* in paragraphs and in table cells, and the numbers of a kind are distinct
\* and increasing.
C15_Numbering ==
    \A k \in 1..Len(returned) :
        /\ RefNumbers(returned[k].result, <<"_", "i", "m", "a", "g", "e", "s", "/", "P", "N", "G", "/", "i", "m", "a", "g", "e">>)
             = Consecutive(returned[k].started[1], returned[k].finished[1])
        /\ RefNumbers(returned[k].result, <<"_", "i", "m", "a", "g", "e", "s", "/", "W", "M", "F", "/", "i", "m", "a", "g", "e">>)
             = Consecutive(returned[k].started[2], returned[k].finished[2])
        /\ returned[k].started[1] <= returned[k].finished[1]
        /\ returned[k].started[2] <= returned[k].finished[2]

\* a conversion returned a text with a raster image of a table cell, then a
\* vector image, numbered by their own counters
C15_Witness ==
    \E k \in 1..Len(returned) :
        /\ Len(returned[k].doc.kids[1].kids) = 2
        /\ returned[k].doc.kids[1].kids[1].tag = "tbl"
        /\ RefNumbers(returned[k].result, <<"_", "i", "m", "a", "g", "e", "s", "/", "P", "N", "G", "/", "i", "m", "a", "g", "e">>) = <<returned[k].started[1]>>
        /\ RefNumbers(returned[k].result, <<"_", "i", "m", "a", "g", "e", "s", "/", "W", "M", "F", "/", "i", "m", "a", "g", "e">>) = <<returned[k].started[2]>>
        /\ returned[k].finished = <<returned[k].started[1] + 1, returned[k].started[2] + 1>>

\* ---------------------------------------------------------------- C16
\* C16: every call of convert_document starts with both image counters at
\* their initial value, whatever was converted before it in the process.
C16_StartsAtInitial ==
    \A k \in 1..Len(returned) :
        returned[k].started = <<PNG_COUNT_initial, WMF_COUNT_initial>>

\* ---------------------------------------------------------------- C17
\* the style identifier of the paragraph
StyleOf == input.kids[1].kids[1].attrs[1].value

\* the style identifier denotes a heading style and has a numeric suffix
HeadingWithLevel ==
    /\ Len(StyleOf) > 7
    /\ SubSeq(StyleOf, 1, 7) \in {<<"H", "e", "a", "d", "i", "n", "g">>, <<"h", "e", "a", "d", "i", "n", "g">>, <<"H", "E", "A", "D", "I", "N", "G">>}

\* the numeric suffix of the style identifier
LevelOf == NumberFrom(StyleOf, 8, 0)

\* n clamped to the range 1..6
Clamped(n) == IF n < 1 THEN 1 ELSE IF n > 6 THEN 6 ELSE n

\* the text of the runs of the paragraph
RECURSIVE TextOfKids(_)
TextOfKids(kids) ==
    IF kids = <<>> THEN <<>>
    ELSE (IF Head(kids).tag = "r" THEN Head(kids).kids[1].text ELSE <<>>)
         \o TextOfKids(Tail(kids))

\* C17: the line of a paragraph of a heading style with a numeric suffix is
\* k '#' characters, a space and the text, k being the suffix clamped to 1..6.
C17_PrefixClamped ==
    \A k \in 1..Len(returned) :
        HeadingWithLevel =>
            returned[k] = [j \in 1..Clamped(LevelOf) |-> "#"] \o <<" ">> \o TextOfKids(input.kids)

\* ---------------------------------------------------------------- C18
\* the n-ary node has a limit of the given kind (low or up)
HasLimit(tag) == \E k \in 1..Len(input.kids) : input.kids[k].tag = tag

\* C18: the output of an n-ary node holds the lower-limit part _{...}
\* exactly when the node has a lower limit and the upper-limit part ^{...}
\* exactly when it has an upper limit.
C18_LimitsExactly ==
    \A k \in 1..Len(returned) :
        /\ Contains(returned[k], <<"_", "{">>) <=> HasLimit("low")
        /\ Contains(returned[k], <<"^", "{">>) <=> HasLimit("up")

\* ---------------------------------------------------------------- C19
\* the operator-character node of the n-ary node, if it has one
ChrNode == FindDeep(input, "m", "chr")

\* the character the operator-character node carries: in its m:val
\* attribute, as its own text, or in a text node under it
Carried ==
    IF GetAttr(ChrNode.attrs, "m", "val") # NoValue THEN GetAttr(ChrNode.attrs, "m", "val")
    ELSE IF ChrNode.text # <<>> THEN ChrNode.text
    ELSE IF ChrNode.kids # <<>> THEN Strip(ChrNode.kids[1].text)
    ELSE <<>>

\* the operator to emit for character c
OperatorFor(c) ==
    CASE c = <<"U+2211">> -> <<"\\", "s", "u", "m">>
      [] c = <<"U+222B">> -> <<"\\", "i", "n", "t">>
      [] c = <<"U+03A0">> -> <<"\\", "p", "r", "o", "d">>
      [] OTHER -> c

\* C19: the output of an n-ary node whose operator-character node carries
\* character c begins with the operator for c (\sum, \int, \prod or c
\* itself), and the operator is empty only without an operator-character
\* node.
C19_OperatorMapped ==
    \A k \in 1..Len(returned) :
        /\ (ChrNode # NoNode /\ Carried # <<>>) => StartsWith(returned[k], OperatorFor(Carried))
        /\ (returned[k] = <<>> \/ Head(returned[k]) = "_") => ChrNode = NoNode

\* ---------------------------------------------------------------- C20
\* the symbols of the fixed table
TableSymbols == {operator_map[k][1] : k \in 1..Len(operator_map)}

\* the LaTeX command the fixed table has for symbol c
CommandOf(c) == operator_map[CHOOSE k \in 1..Len(operator_map) : operator_map[k][1] = c][2]

\* text with each table symbol replaced by its command, character by character
RECURSIVE Substituted(_)
Substituted(text) ==
    IF text = <<>> THEN <<>>
    ELSE (IF Head(text) \in TableSymbols THEN CommandOf(Head(text)) ELSE <<Head(text)>>)
         \o Substituted(Tail(text))

\* C20: convert_math_operator returns its text with every occurrence of
\* every table symbol replaced by the symbol's LaTeX command and every other
\* character unchanged; the output holds no table symbol; applied to its own
\* output it returns the output unchanged; and a digit right after a division
\* sign comes out as the command \div, one space and the digit.
C20_Operators ==
    Len(returned) >= 1 =>
        /\ returned[1] = Substituted(input)
        /\ \A p \in 1..Len(returned[1]) : returned[1][p] \notin TableSymbols
        /\ \A k \in 2..Len(returned) : returned[k] = returned[1]
        /\ \A p \in 1..(Len(input) - 1) :
              (input[p] = "U+00F7" /\ input[p + 1] = "2") => Contains(returned[1], <<"\\", "d", "i", "v", " ", "2">>)

\* a text with a division sign before a digit and a second multiplication
\* sign was converted, and its output converted again
C20_Witness ==
    /\ input = <<"U+00D7", "U+00F7", "2">>
    /\ returned = <<<<" ", "\\", "t", "i", "m", "e", "s", " ", " ", "\\", "d", "i", "v", " ", "2">>, <<" ", "\\", "t", "i", "m", "e", "s", " ", " ", "\\", "d", "i", "v", " ", "2">>>>

\* ---------------------------------------------------------------- C21
\* node identity p is q or an ancestor of q
AtOrAbove(p, q) == Len(p) <= Len(q) /\ SubSeq(q, 1, Len(p)) = p

\* the items of the given kinds made from the node of identity g or from a
\* node that holds it
ItemsHolding(g, types) ==
    {k \in 1..Len(content_items) :
        content_items[k].type \in types /\ AtOrAbove(content_items[k].src[1], g)}

\* the items of the given kinds made from inside the node of identity r
ItemsWithin(r, types) ==
    {k \in 1..Len(content_items) :
        content_items[k].type \in types /\ AtOrAbove(r, content_items[k].src[1])}

\* the identities of the nodes ns:tag of the paragraph
IdsOf(ns, tag) ==
    LET found == FindAllDeep(input, <<>>, ns, tag)
    IN  {found[k].id : k \in 1..Len(found)}

\* the run of identity r holds a math group
HoldsMath(r) == \E g \in IdsOf("m", "oMath") : AtOrAbove(r, g)

\* C21: in one extraction every math group has its LaTeX in exactly one
\* Math item, also inside a run, a math paragraph or another math group; a
\* run with math groups gives no item of its own text; every other run with
\* text gives exactly one item.
C21_EmittedOnce ==
    calls >= 1 =>
        /\ \A g \in IdsOf("m", "oMath") : Cardinality(ItemsHolding(g, {"math"})) = 1
        /\ \A r \in IdsOf("w", "r") :
              IF HoldsMath(r)
              THEN ItemsWithin(r, {"text", "superscript", "subscript"}) = {}
              ELSE Cardinality(ItemsWithin(r, {"text", "superscript", "subscript"})) = 1

\* ---------------------------------------------------------------- C22
\* the merged items that are Math items, in order
MathOfMerged == SelectSeq(merged, LAMBDA item : item.type = "math")

\* the contents of the Math items, concatenated
RECURSIVE AllMath(_)
AllMath(items) == IF items = <<>> THEN <<>> ELSE Head(items).cont \o AllMath(Tail(items))

\* a merged item is a Text item with content other than whitespace
SomeText == \E k \in 1..Len(merged) : merged[k].type = "text" /\ Strip(merged[k].cont) # <<>>

\* C22: a paragraph with math and no Text item of non-whitespace content
\* has its math, concatenated, in one display block $$ ... $$ on its own
\* lines; a paragraph with such a Text item has every Math item inline in
\* single dollars and no display block.
C22_OneDisplayBlock ==
    \A k \in 1..Len(returned) :
        /\ (MathOfMerged # <<>> /\ ~SomeText) =>
              /\ Occurrences(returned[k], <<"$", "$">>) = 2
              /\ Contains(returned[k], <<"\n", "$", "$", "\n">> \o AllMath(MathOfMerged) \o <<"\n", "$", "$", "\n">>)
        /\ SomeText =>
              /\ Occurrences(returned[k], <<"$", "$">>) = 0
              /\ \A j \in 1..Len(MathOfMerged) :
                    Contains(returned[k], <<" ", "$", " ">> \o MathOfMerged[j].cont \o <<" ", "$", " ">>)

\* ---------------------------------------------------------------- C23
\* the body-level nodes of document doc
BodyNodesOf(doc) == doc.kids[1].kids

\* nodes with every node that is neither paragraph nor table replaced by
\* those of its children that are paragraphs or tables
RECURSIVE Lifted(_)
Lifted(nodes) ==
    IF nodes = <<>> THEN <<>>
    ELSE (IF Head(nodes).tag \in {"p", "tbl"} THEN <<Head(nodes)>>
          ELSE SelectSeq(Head(nodes).kids, LAMBDA n : n.tag \in {"p", "tbl"}))
         \o Lifted(Tail(nodes))

\* the output blocks of the body-level paragraphs and tables nodes, from
\* node k on, after the blocks out and with the counters at png and wmf
RECURSIVE BlocksOf(_, _, _, _, _)
BlocksOf(nodes, k, out, png, wmf) ==
    IF k > Len(nodes) THEN out
    ELSE Let(IF nodes[k].tag = "tbl"
             THEN ConvertTable([node |-> nodes[k], id |-> <<k>>], DocName, out, png, wmf, {})
             ELSE ConvertParagraph([node |-> nodes[k], id |-> <<k>>], DocName, out, png, wmf, {}),
             LAMBDA one : BlocksOf(nodes, k + 1, one.out, one.png, one.wmf))

\* C23: for a body-level node that is neither paragraph nor table exactly
\* its direct paragraph and table children are converted, in order and as
\* body-level paragraphs and tables are, so the text of the document is
\* that of the document with each such node replaced by these children;
\* paragraphs and tables deeper below such a node give no output.
C23_OneLevel ==
    \A k \in 1..Len(returned) :
        /\ returned[k].result
             = Join(<<"\n", "\n">>, BlocksOf(Lifted(BodyNodesOf(returned[k].doc)), 1, <<>>,
                                      returned[k].started[1], returned[k].started[2]))
        /\ ~Contains(returned[k].result, <<"z">>)
        /\ Occurrences(returned[k].result, <<"<", "t", "a", "b", "l", "e">>)
             = Len(SelectSeq(Lifted(BodyNodesOf(returned[k].doc)), LAMBDA n : n.tag = "tbl"))

\* a document was converted that is one container with a paragraph and a
\* table as children and a paragraph and a table below a child
C23_Witness ==
    \E k \in 1..Len(returned) :
        /\ Len(BodyNodesOf(returned[k].doc)) = 1
        /\ BodyNodesOf(returned[k].doc)[1].tag = "sdt"
        /\ BodyNodesOf(returned[k].doc)[1].kids[3].tag = "sdtContent"
        /\ StartsWith(returned[k].result, <<"y", "\n", "\n", "\n", "\n", "<", "t", "a", "b", "l", "e">>)
        /\ Occurrences(returned[k].result, <<"<", "t", "a", "b", "l", "e">>) = 1

\* ---------------------------------------------------------------- C24
\* the text a child of a generated cell is rendered to, if it is a paragraph
Rendered(node) ==
    CASE node = TextParagraph(<<"a">>) -> <<"a">>
      [] node = Paragraph(<<>>, <<W("r", <<>>, <<T(<<"a">>), BR>>), TextRun(<<"b">>)>>) -> <<"a", "<", "b", "r", "/", ">", "b">>
      [] node = Paragraph(<<>>, <<>>) -> <<>>
      [] node = TextParagraph(<<" ", "c", " ">>) -> <<"c">>
      [] node = Paragraph(<<>>, <<OMath(<<MR(PI)>>)>>) -> <<"$", "\\", "p", "i", "$">>

\* the children of the cell of the table
CellKids == input.kids[1].kids[1].kids

\* the rendered texts of the paragraphs that are children of the cell
RenderedParagraphs ==
    LET ps == SelectSeq(CellKids, LAMBDA n : n.tag = "p")
    IN  [k \in 1..Len(ps) |-> Rendered(ps[k])]

\* C24 as claimed: the text of a cell is the rendered texts of all the
\* paragraphs that are its direct children, joined with <br/>.
C24_AllJoined ==
    (calls >= 1 /\ input.kids # <<>>) => rows[1][1] = Join(<<"<", "b", "r", "/", ">">>, RenderedParagraphs)

\* C24: the text of a cell is built from the paragraphs that are direct
\* children of the cell only, in order: each is extracted, merged and
\* rendered with newlines as <br/> and trimmed, and the rendered texts that
\* are not empty are joined with <br/>; a table nested in the cell adds
\* nothing; a table without rows gives the empty string.
C24_NonEmptyJoined ==
    calls >= 1 =>
        IF input.kids = <<>> THEN rows = <<>> /\ \A k \in 1..Len(returned) : returned[k] = <<>>
        ELSE /\ rows[1][1] = Join(<<"<", "b", "r", "/", ">">>, SelectSeq(RenderedParagraphs, LAMBDA t : t # <<>>))
             /\ \A k \in 1..Len(returned) : Occurrences(returned[k], <<"<", "t", "a", "b", "l", "e">>) = 1

\* a cell was converted that holds a paragraph with a line break, a nested
\* table and a paragraph with text between spaces
C24_Witness ==
    /\ calls >= 1
    /\ input.kids # <<>>
    /\ Len(CellKids) = 3
    /\ CellKids[2] = SmallTable
    /\ rows = << <<<<"a", "<", "b", "r", "/", ">", "b", "<", "b", "r", "/", ">", "c">>>> >>

\* ---------------------------------------------------------------- C25
\* the input item at place a is a script
ScriptAt(a) == content_items[a].type \in {"superscript", "subscript"}

\* the input item at place a is folded into a Text before it: a Text at a
\* place t before a is followed by scripts only up to a, and one of the
\* scripts that follow t without a gap has content
InFold(a) ==
    \E t \in 1..(a - 1) :
        /\ content_items[t].type = "text"
        /\ \A j \in (t + 1)..a : ScriptAt(j)
        /\ \E j \in (t + 1)..Len(content_items) :
              /\ \A n \in (t + 1)..j : ScriptAt(n)
              /\ content_items[j].cont # <<>>

\* the content with which the input item at place a is to pass through
PassedContent(a) ==
    CASE content_items[a].type = "superscript" -> <<"^", "{">> \o content_items[a].cont \o <<"}">>
      [] content_items[a].type = "subscript" -> <<"_", "{">> \o content_items[a].cont \o <<"}">>
      [] OTHER -> content_items[a].cont

\* the kind with which the input item at place a is to pass through
PassedType(a) == IF ScriptAt(a) THEN "math" ELSE content_items[a].type

\* C25: an item that is not a Text and is not folded into a Text before it
\* passes through the merge as one item: a Math item unchanged, a
\* Superscript with content c as Math ^{c}, a Subscript with content c as
\* Math _{c}, an image item unchanged; scripts at the start of the sequence
\* and scripts directly after a Math or image item pass so.
C25_PassThrough ==
    pc = "done" =>
        \A a \in 1..Len(content_items) :
            (content_items[a].type # "text" /\ ~InFold(a)) =>
                \E k \in 1..Len(merged) :
                    /\ merged[k].src = content_items[a].src
                    /\ merged[k].type = PassedType(a)
                    /\ merged[k].cont = PassedContent(a)
                    /\ merged[k].name = content_items[a].name

\* a sequence of a superscript, an image and a subscript was merged
C25_Witness ==
    /\ pc = "done"
    /\ Len(content_items) = 3
    /\ content_items[1].type = "superscript"
    /\ content_items[2].type = "image"
    /\ content_items[3].type = "subscript"
    /\ Plain(merged) = << <<"math", <<"^", "{", "2", "}">>>>, <<"image", <<"r", "I", "d", "5">>>>, <<"math", <<"_", "{", "i", "}">>>> >>

\* ---------------------------------------------------------------- C27
\* C27: what merge_superscripts_subscripts returns holds no Superscript and
\* no Subscript item, only Text, Math and image items, and has at most as
\* many items as its input, also when a script of the input has no content;
\* it is what the function returns when run as a whole.
C27_NoScriptsLeft ==
    pc = "done" =>
        /\ \A k \in 1..Len(merged) : merged[k].type \in {"text", "math", "image", "wmf"}
        /\ Len(merged) <= Len(content_items)
        /\ returned[Len(returned)] = merged
        /\ merged = merge_superscripts_subscripts(content_items)

\* a Text followed by a superscript without content was merged: the Text is
\* kept and the script becomes a Math item of its own
C27_Witness ==
    /\ pc = "done"
    /\ Plain(content_items) = << <<"text", <<"x">>>>, <<"superscript", <<>> >> >>
    /\ Plain(merged) = << <<"text", <<"x">>>>, <<"math", <<"^", "{", "}">>>> >>

\* ---------------------------------------------------------------- C26
\* C26: every image reference in the text returned for a document, from a
\* body paragraph or from a table cell, has the path
\* ../Images/{name of the document}_images/PNG/image{N}.png or
\* ../Images/{name of the document}_images/WMF/image{N}.wmf.
C26_PathOfDocument ==
    \A k \in 1..Len(returned) :
        /\ Occurrences(returned[k].result, <<"!", "[">>)
             = Occurrences(returned[k].result, <<"]", "(", ".", ".", "/", "I", "m", "a", "g", "e", "s", "/">> \o DocName \o <<"_", "i", "m", "a", "g", "e", "s", "/", "P", "N", "G", "/", "i", "m", "a", "g", "e">>)
               + Occurrences(returned[k].result, <<"]", "(", ".", ".", "/", "I", "m", "a", "g", "e", "s", "/">> \o DocName \o <<"_", "i", "m", "a", "g", "e", "s", "/", "W", "M", "F", "/", "i", "m", "a", "g", "e">>)
        /\ Occurrences(returned[k].result, <<"_", "i", "m", "a", "g", "e", "s", "/", "P", "N", "G", "/", "i", "m", "a", "g", "e">>)
             = Occurrences(returned[k].result, <<".", "p", "n", "g", ")">>)
        /\ Occurrences(returned[k].result, <<"_", "i", "m", "a", "g", "e", "s", "/", "W", "M", "F", "/", "i", "m", "a", "g", "e">>)
             = Occurrences(returned[k].result, <<".", "w", "m", "f", ")">>)

\* ---------------------------------------------------------------- C28
\* what the child at place k of the run adds to the text: a text fragment
\* its text (whitespace as underscores in an underlined run), a line break
\* one newline, anything else nothing
Added(k) ==
    IF input.kids[k].tag = "t"
    THEN [p \in 1..Len(input.kids[k].text) |->
             IF Underlined /\ input.kids[k].text[p] \in Whitespace
             THEN "_" ELSE input.kids[k].text[p]]
    ELSE IF input.kids[k].tag = "br" THEN <<"\n">>
    ELSE <<>>

\* C28: the text of a run keeps the document order of its text fragments
\* and line breaks: each line break adds exactly one newline, at its place
\* between the fragments before and after it.
C28_BreaksInPlace ==
    \A k \in 1..Len(returned) :
        returned[k] = Concat([n \in 1..Len(input.kids) |-> Added(n)])

\* ---------------------------------------------------------------- C29
\* the body-level nodes among nodes whose conversion does not raise
NonFailing(nodes) == SelectSeq(nodes, LAMBDA n : ~Raises(n))

\* C29: when the conversion of a body-level node raises, convert_document
\* skips the node and goes on: it returns, and the text it returns is the
\* blank-line join of the blocks of the body-level nodes whose conversion
\* does not raise, in document order.
C29_SkipsFailing ==
    /\ pc # "raised"
    /\ \A k \in 1..Len(returned) :
           returned[k].result
             = Join(<<"\n", "\n">>, BlocksOf(Lifted(NonFailing(BodyNodesOf(returned[k].doc))), 1, <<>>,
                                      returned[k].started[1], returned[k].started[2]))

\* ---------------------------------------------------------------- C30
\* the nodes of the tree below and with node
RECURSIVE TreeSize(_)
RECURSIVE TreeSizes(_, _)
TreeSize(node) == 1 + TreeSizes(node.kids, 1)
TreeSizes(kids, k) == IF k > Len(kids) THEN 0 ELSE TreeSize(kids[k]) + TreeSizes(kids, k + 1)

\* C30: the conversion of a paragraph terminates: every pass of the outer
\* loop of merge_superscripts_subscripts leaves the scan index strictly
\* larger and at most the length of the sequence (in the 1-based count,
\* one past it), where the loop ends; extract_paragraph_content processes
\* no node twice, so at most as many nodes as the paragraph has; and every
\* extraction and merge that is begun comes to its end.
C30_Terminates ==
    /\ [][(pc = "merge" /\ pc' = "merge") => (i < i' /\ i' <= Len(content_items) + 1)]_vars
    /\ [](pc = "done" => i = Len(content_items) + 1)
    /\ [](/\ \A a, b \in 1..Len(started) : started[a] = started[b] => a = b
          /\ Len(started) <= TreeSize(input))
    /\ (pc \in {"extract", "merge"}) ~> (pc = "done")

\* a paragraph with a node below a node was extracted and merged to the end,
\* and a text was folded with more than one script
C30_Witness ==
    /\ pc = "done"
    /\ \E a \in 1..Len(started) : Len(started[a]) >= 2
    /\ Len(merged) + 2 <= Len(content_items)

====
